---- MODULE Spec2Model ----
(***************************************************************************)
(* Model of the pulsar backend (mateuszsury/pulsar): the device session     *)
(* (serial_comm/device.py), the raw-REPL codec (serial_comm/repl.py), the   *)
(* serial manager and port watcher (serial_comm/manager.py, discovery.py),  *)
(* the event bus (core/events.py), the WebSocket broadcaster                *)
(* (server/websocket.py), the language-server proxy (lsp/manager.py), file  *)
(* transfer (serial_comm/file_transfer.py), folder sync (tools/sync.py),    *)
(* the application's shutdown (core/app.py), the bytes written to the       *)
(* serial link, package removal (tools/lib_manager.py), successive executes *)
(* against a board, and the REPLResult every return site builds.            *)
(*                                                                         *)
(* The program runs on one asyncio event loop.  An action of this module is *)
(* the code one task runs between two suspension points (awaits): it is     *)
(* atomic because asyncio tasks are cooperative.  pc[t] names the await a   *)
(* task is suspended at.                                                    *)
(***************************************************************************)
EXTENDS Integers, Sequences, FiniteSets, TLC

VARIABLES
    \* ---- tasks
    pc,                 \* pc[t]: the await task t is suspended at
    result,             \* result[t]: the REPLResult an execute returned
    \* ---- Device (serial_comm/device.py)
    state,              \* Device.info.state
    reader,             \* Device._reader is not None
    writer,             \* Device._writer is not None
    link,               \* the serial transport: none, open, closing, eof, error
    rxData,             \* the StreamReader's buffer holds unread bytes
    read_task,          \* Device._read_task: none, new, run, cancel, done
    orphans,            \* reader tasks alive that _read_task no longer names
    read_loop_stopped,  \* Device._read_loop_stopped
    read_lock,          \* Device._read_lock (asyncio.Lock)
    rl_holder,          \* the task that acquired _read_lock last, "none" if released
    ring,               \* chunks in Device._output_buffer
    ring_in_exec,       \* history: the reader appended to the ring while an
                        \* execute held the codec mutex
    \* ---- RawREPL (serial_comm/repl.py)
    in_raw_mode,        \* RawREPL._in_raw_mode
    repl_lock,          \* RawREPL._lock (asyncio.Lock), the codec mutex
    mx_holder,          \* the task that acquired the codec mutex, "none" if free
    mx_order,           \* history: executes in the order they asked for the mutex
    mx_grants,          \* history: executes in the order they got the mutex
    \* ---- SerialManager / PortDiscovery
    devices,            \* port in SerialManager._devices (and _repls)
    port_present,       \* the port is in comports()
    known_ports,        \* port in PortDiscovery._known_ports
    n_disconnected,     \* DEVICE_DISCONNECTED events emitted for the port
    n_connected,        \* DEVICE_CONNECTED events emitted for the port
    n_error,            \* DEVICE_ERROR events emitted for the port
    \* ---- one reply on the wire (RawREPL.execute from "Wait for OK" on)
    stdout,             \* what the device's program printed
    stderr,             \* what it raised
    wire,               \* reply bytes the device has still to send
    buf,                \* bytes in the StreamReader's buffer
    data,               \* _read_raw_response's accumulator
    rpc,                \* where execute is: wait_ok, resp, done
    reply,              \* the REPLResult it returned
    sent,               \* history: reply bytes the device has sent
    \* ---- EventBus (core/events.py) and WebSocketHandler (server/websocket.py)
    queue,              \* EventBus._queue
    emitted,            \* history: every event published, in order
    bpc,                \* where _process_events is: get, kind, global
    event,              \* the event being dispatched
    hlog,               \* history: events each bus handler was called with
    connections,        \* WebSocketHandler._connections
    subscriptions,      \* WebSocketHandler._subscriptions
    sendlist,           \* clients _on_event has still to visit
    wslog,              \* history: events written to each WebSocket client
    unsubscribed,       \* history: the ports a client has unsubscribed and not subscribed since
    \* ---- LSPManager (lsp/manager.py) and its owners (websocket.py, api.py)
    process,            \* process[m]: LSPManager._process of owner m, 0 for None
    children,           \* the language-server child processes alive
    spawned,            \* how many children were ever spawned
    ipc,                \* ipc[i]: where an initialize request is, or how it was answered
    initialized,        \* initialized[m]: LSPManager._initialized of owner m
    lsp_read_task,      \* the WebSocket handler's manager's _read_task: none, run, ended
    request_id,         \* LSPManager._request_id
    pending_requests,   \* the ids in LSPManager._pending_requests
    resolved,           \* the ids whose future is done
    rid,                \* rid[r]: the id send_request gave requester r, 0 if none
    rstate,             \* rstate[r]: idle, waiting, result, error, timeout, not_running
    got,                \* got[r]: the message that resolved r's future
    issued,             \* history: the ids handed out, in order
    unanswered,         \* requests the server has not answered yet
    srv_msgs,           \* messages the server has sent
    sd,                 \* where LSPManager.shutdown is
    \* ---- FileTransfer (serial_comm/file_transfer.py) and the device's filesystem
    fpc,                \* fpc[t]: the exchange file task t is to make next
    content,            \* content[t]: the bytes task t writes
    offset,             \* offset[t]: write_file's / read_file's offset
    file_size,          \* file_size[t]: the size read_file was told
    rcontent,           \* rcontent[t]: the bytes read_file has collected
    dev_files,          \* the device's files: path -> bytes, Absent if none
    dev_f,              \* the device's global f: none, a path open for writing, closed
    xlog,               \* history: the operation of every REPL exchange, in order
    \* ---- FileTransfer.mkdir, called twice with one path
    mk_path,            \* the path given to mkdir
    mk_call,            \* which call is running: 1, 2, or 3 when both returned
    mk_parts,           \* the parts the loop has still to visit
    current,            \* mkdir's current
    mk_out,             \* what the calls returned
    mk_log,             \* history: what the device printed in each exchange
    mk_tree,            \* the directories after the first call
    dev_dirs,           \* the device's directories (the root is implicit)
    dev_plain,          \* the device's paths that are plain files
    \* ---- FolderSync (tools/sync.py)
    local,              \* the local folder: relative path -> content
    remote,             \* the device's files under the remote folder: path -> content
    remote_files,       \* compare_files' remote_files: path -> size
    spc,                \* where sync_folder is
    sync_order,         \* the local files in the order scan_local_folder found them
    todo,               \* the files the running loop has still to visit
    remote_hash,        \* SyncFile.remote_hash of each local file
    uploaded,           \* SyncResult.uploaded
    skipped,            \* SyncResult.skipped
    \* ---- Application (core/app.py) and what its shutdown stops
    app_pc,             \* where the application is: running, or a stage of _async_shutdown
    stages,             \* history: the shutdown stages finished, in order
    sh_todo,            \* the items the running stage's loop has still to visit
    ws_subscribed,      \* WebSocketHandler._on_event is subscribed to the bus
    monitoring,         \* the port watcher's task is running
    registered,         \* the ports in SerialManager._devices
    dispatching,        \* the event dispatcher's task is running
    \* ---- the bytes written to the serial link (device.py:142-153)
    wpc,                \* wpc[t]: the stage task t has reached and what it waits for
    burst,              \* the writes task t has still to make before its next await
    tx,                 \* history: the writes the transport has taken, in order
    w_lock,             \* Device._lock, held across write and drain
    w_read_lock,        \* Device._read_lock
    w_in_raw_mode,      \* RawREPL._in_raw_mode
    w_soft,             \* the soft flag of the reset request
    \* ---- LibManager.uninstall_package (tools/lib_manager.py)
    un_pc,              \* where uninstall_package is
    un_fs,              \* the device's file system at the paths tried: absent, file, dir
    un_ft,              \* SerialManager._file_transfers has the port
    un_tried,           \* history: the paths delete_file was called with, in order
    un_deleted,         \* history: the paths delete_file reported deleted
    un_result,          \* what uninstall_package returned
    \* ---- a board behind the codec: successive executes (repl.py:98-207)
    h_pc,               \* where the running execute is
    h_n,                \* the number of executes started; the running one is number h_n
    h_in_raw_mode,      \* RawREPL._in_raw_mode
    h_entered,          \* history: the running execute went through enter_raw_mode
    h_data,             \* _read_raw_response's data
    h_results,          \* history: the results returned, in order
    b_rx,               \* the StreamReader's buffer
    b_mode,             \* the board's REPL: friendly or raw
    b_in,               \* what the host wrote and the board has not taken yet
    b_run,              \* what the board has still to send for what it took
    b_was_reset,        \* the board was reset by hand
    \* ---- the result of one call (repl.py:98-179, 209-257, manager.py:139-154)
    r_entry,            \* the function called: manager, execute or friendly
    r_env,              \* what the call meets: the session, the device's answer, an exception
    r_result,           \* the REPLResult the call returned, in a sequence; empty before it
    \* ---- the dispatcher and handlers that raise (core/events.py)
    d_handlers,         \* EventBus._handlers: per type, the handlers in registration order
    d_global,           \* EventBus._global_handlers, in registration order
    d_raises,           \* the handlers that raise an exception when they are called
    d_queue,            \* EventBus._queue
    d_phase,            \* where _process_events is: get, kind, global
    d_i,                \* the index of the handler to call next
    d_event,            \* the event being dispatched
    d_calls,            \* history: the calls made: handler, event number, raised or not
    d_done              \* history: the events whose dispatch is over

svars == <<pc, result, state, reader, writer, link, rxData, read_task, orphans,
           read_loop_stopped, read_lock, rl_holder, ring, ring_in_exec,
           in_raw_mode, repl_lock, mx_holder, mx_order, mx_grants, devices,
           port_present, known_ports, n_disconnected, n_connected, n_error>>
rawVars == <<stdout, stderr, wire, buf, data, rpc, reply, sent>>
busVars == <<queue, emitted, bpc, event, hlog, connections, subscriptions,
             sendlist, wslog, unsubscribed>>
lspVars == <<process, children, spawned, ipc, initialized, lsp_read_task, request_id, pending_requests, resolved,
             rid, rstate, got, issued, unanswered, srv_msgs, sd>>
ftVars == <<fpc, content, offset, file_size, rcontent, dev_files, dev_f, xlog>>
mkVars == <<mk_path, mk_call, mk_parts, current, mk_out, mk_log, mk_tree, dev_dirs,
            dev_plain>>
syncVars == <<local, remote, remote_files, spc, sync_order, todo, remote_hash, uploaded,
              skipped>>
appVars == <<app_pc, stages, sh_todo, ws_subscribed, monitoring, registered, dispatching>>
wireVars == <<wpc, burst, tx, w_lock, w_read_lock, w_in_raw_mode, w_soft>>
unVars == <<un_pc, un_fs, un_ft, un_tried, un_deleted, un_result>>
boardVars == <<h_pc, h_n, h_in_raw_mode, h_entered, h_data, h_results, b_rx, b_mode, b_in,
               b_run, b_was_reset>>
resVars == <<r_entry, r_env, r_result>>
dispVars == <<d_handlers, d_global, d_raises, d_queue, d_phase, d_i, d_event, d_calls, d_done>>
ioVars == <<wireVars, unVars, boardVars, resVars, dispVars>>
toolVars == <<ftVars, mkVars, syncVars, appVars, ioVars>>
vars == <<svars, rawVars, busVars, lspVars, toolVars>>
sessRest == <<rawVars, busVars, lspVars, toolVars>>

(***************************************************************************)
(* Tasks.  "c" is SerialManager.connect, e1..e3 are SerialManager.execute   *)
(* requests, "s" is SerialManager.reset, "d" is SerialManager.disconnect    *)
(* and "w" is the port watcher's removal callback.                          *)
(***************************************************************************)
Execs == {"e1", "e2", "e3"}
Closers == {"d", "w"}
Tasks == Execs \cup Closers \cup {"c", "s"}

\* The ring keeps the last 1000 chunks (device.py:261); the model keeps RingCap.
RingCap == 2

\* ------------------------------------------------------------ asyncio.Lock
\* Lock.acquire returns at once only if the lock is free and nobody waits.
CanTake(L) == ~L.locked /\ L.waiters = <<>>
Take(L) == [L EXCEPT !.locked = TRUE]
Enqueue(L, t) == [L EXCEPT !.waiters = Append(@, t)]
\* Lock._wake_up_first: release wakes the first waiter, which takes the lock
\* when it runs.
NextWaiterLifo(L) == L.waiters[Len(L.waiters)]
NextWaiter(L) == Head(L.waiters)
Woken(L, t) == ~L.locked /\ L.waiters # <<>> /\ NextWaiter(L) = t
Without(s, t) == SelectSeq(s, LAMBDA x : x # t)
Grant(L, t) == [locked |-> TRUE, waiters |-> Without(L.waiters, t)]
Release(L) == [L EXCEPT !.locked = FALSE]
Leave(L, t) == [L EXCEPT !.waiters = Without(@, t)]
FreeLock == [locked |-> FALSE, waiters |-> <<>>]

\* ------------------------------------------------------------ REPLResult
Pending == [output |-> "?", error |-> "?", success |-> FALSE]
REPLResult(o, e, s) == [output |-> o, error |-> e, success |-> s]
NotConnected == REPLResult("", "Device not connected: port", FALSE)
EnterFailed == REPLResult("", "Failed to enter raw REPL mode", FALSE)
NoOk == REPLResult("", "No OK response from device", FALSE)
ExecTimeout == REPLResult("", "Execution timeout", FALSE)
Raised == REPLResult("", "str(e)", FALSE)
\* the device answered: stdout only, or stdout and a traceback
Answered(err) == REPLResult("stdout", err, err = "")

\* ------------------------------------------------------------ Device helpers
\* StreamReader.at_eof(): EOF was fed and the buffer is empty.
AtEof(rx) == link = "eof" /\ ~rx
ReaderAlive(rt) == rt \in {"new", "run", "cancel"}
\* Device.write raises when there is no writer or the transport is gone.
CanWrite == writer /\ link = "open"
\* Device.read raises when there is no reader or the stream holds an exception.
CanRead == reader /\ link # "error"

\* Device.resume_read_loop: a fresh reader task unless the stream is at EOF.
ResumeCreates(rx) == reader /\ ~AtEof(rx)
ResumeTask(rx) == IF ResumeCreates(rx) THEN "new" ELSE read_task
ResumeOrphans(rx) ==
    IF ResumeCreates(rx) /\ ReaderAlive(read_task) THEN orphans + 1 ELSE orphans

\* The await in pause_read_loop / Device.disconnect ends when the reader task
\* ends: every task awaiting it becomes runnable at its next step.
JoinPc(p) ==
    CASE p = "erm_wait_reader" -> "erm_send"
      [] p = "ex_wait_reader"  -> "ex_drain"
      [] p = "s_wait_reader"   -> "s_go"
      [] p = "c_wait_reader"   -> "c_probe"
      [] p = "d_wait_reader"   -> "d_close"
      [] OTHER                 -> p

\* Device.pause_read_loop called by t, with the lock L, the reader task rt and
\* the flag st as the code before it left them: take the lock or queue for it,
\* then cancel the reader task and await it.  go is where t continues once the
\* reader is gone.
PauseNoJoin(t, L, rt, st, waitRl, waitReader, go) ==
    IF CanTake(L)
    THEN /\ read_lock' = Take(L)
         /\ rl_holder' = t
         /\ read_task' = rt
         /\ read_loop_stopped' = st
         /\ pc' = [pc EXCEPT ![t] = go]
    ELSE /\ read_lock' = Enqueue(L, t)
         /\ rl_holder' = IF L.locked THEN rl_holder ELSE "none"
         /\ read_task' = rt
         /\ read_loop_stopped' = st
         /\ pc' = [pc EXCEPT ![t] = waitRl]

Pause(t, L, rt, st, waitRl, waitReader, go) ==
    IF CanTake(L)
    THEN /\ read_lock' = Take(L)
         /\ rl_holder' = t
         /\ IF ReaderAlive(rt)
            THEN /\ read_task' = "cancel"
                 /\ read_loop_stopped' = TRUE
                 /\ pc' = [pc EXCEPT ![t] = waitReader]
            ELSE /\ read_task' = rt
                 /\ read_loop_stopped' = st
                 /\ pc' = [pc EXCEPT ![t] = go]
    ELSE /\ read_lock' = Enqueue(L, t)
         /\ rl_holder' = IF L.locked THEN rl_holder ELSE "none"
         /\ read_task' = rt
         /\ read_loop_stopped' = st
         /\ pc' = [pc EXCEPT ![t] = waitRl]

\* The waiter t of _read_lock runs: it takes the lock and pause_read_loop goes on.
PauseGranted(t, waitReader, go) ==
    /\ Woken(read_lock, t)
    /\ read_lock' = Grant(read_lock, t)
    /\ rl_holder' = t
    /\ IF ReaderAlive(read_task)
       THEN /\ read_task' = "cancel"
            /\ read_loop_stopped' = TRUE
            /\ pc' = [pc EXCEPT ![t] = waitReader]
       ELSE /\ read_task' = read_task
            /\ read_loop_stopped' = read_loop_stopped
            /\ pc' = [pc EXCEPT ![t] = go]

\* Device.resume_read_loop by the holder of _read_lock; rx is the buffer state
\* the caller leaves.
Resume(rx) ==
    /\ read_loop_stopped' = FALSE
    /\ read_task' = ResumeTask(rx)
    /\ orphans' = ResumeOrphans(rx)
    /\ read_lock' = Release(read_lock)
    /\ rl_holder' = "none"

mgrVars == <<devices, port_present, known_ports, n_disconnected, n_connected, n_error>>
mxVars == <<repl_lock, mx_holder, mx_order, mx_grants>>
rlVars == <<read_lock, rl_holder, read_task, read_loop_stopped, orphans>>
ringVars == <<ring, ring_in_exec>>

\* ------------------------------------------------------------ RawREPL.execute
\* The finally of execute (and of enter_raw_mode on its failure paths): resume
\* the reader, leave the codec mutex, return res.
ExecReturnLeak(t, res, rx) ==
    /\ read_loop_stopped' = read_loop_stopped
    /\ read_task' = read_task
    /\ orphans' = orphans
    /\ read_lock' = read_lock
    /\ rl_holder' = rl_holder
    /\ repl_lock' = Release(repl_lock)
    /\ mx_holder' = "none"
    /\ result' = [result EXCEPT ![t] = res]
    /\ pc' = [pc EXCEPT ![t] = "done"]
    /\ rxData' = rx
    /\ UNCHANGED <<state, reader, writer, link, ringVars, in_raw_mode,
                   mx_order, mx_grants, mgrVars>>

ExecReturn(t, res, rx) ==
    /\ Resume(rx)
    /\ repl_lock' = Release(repl_lock)
    /\ mx_holder' = "none"
    /\ result' = [result EXCEPT ![t] = res]
    /\ pc' = [pc EXCEPT ![t] = "done"]
    /\ rxData' = rx
    /\ UNCHANGED <<state, reader, writer, link, ringVars, in_raw_mode,
                   mx_order, mx_grants, mgrVars>>

\* execute once it has the codec mutex (repl.py:113-123): enter raw mode if
\* needed, else pause the reader for the exchange.
ExecBody(t) ==
    IF ~in_raw_mode
    THEN Pause(t, read_lock, read_task, read_loop_stopped,
               "erm_wait_rl", "erm_wait_reader", "erm_send")
    ELSE Pause(t, read_lock, read_task, read_loop_stopped,
               "ex_wait_rl", "ex_wait_reader", "ex_drain")

\* Requests are made in the order e1, e2, e3 (the three are interchangeable).
Started(t) == pc[t] # "idle"
MayStart(t) ==
    /\ pc[t] = "idle"
    /\ t = "e2" => Started("e1")
    /\ t = "e3" => Started("e2")

\* SerialManager.execute (manager.py:139-154) and the entry of RawREPL.execute.
ExecStart(t) ==
    /\ MayStart(t)
    /\ IF ~devices
       THEN /\ result' = [result EXCEPT ![t] = NotConnected]
            /\ pc' = [pc EXCEPT ![t] = "done"]
            /\ UNCHANGED <<rlVars, mxVars>>
       ELSE /\ mx_order' = Append(mx_order, t)
            /\ IF CanTake(repl_lock)
               THEN /\ repl_lock' = Take(repl_lock)
                    /\ mx_holder' = t
                    /\ mx_grants' = Append(mx_grants, t)
                    /\ ExecBody(t)
                    /\ UNCHANGED orphans
               ELSE /\ repl_lock' = Enqueue(repl_lock, t)
                    /\ pc' = [pc EXCEPT ![t] = "wait_mutex"]
                    /\ UNCHANGED <<mx_holder, mx_grants, rlVars>>
            /\ UNCHANGED result
    /\ UNCHANGED <<state, reader, writer, link, rxData, ringVars, in_raw_mode, mgrVars>>
    /\ UNCHANGED sessRest

\* A queued execute gets the codec mutex.
ExecMutexGranted(t) ==
    /\ pc[t] = "wait_mutex"
    /\ Woken(repl_lock, t)
    /\ repl_lock' = Grant(repl_lock, t)
    /\ mx_holder' = t
    /\ mx_grants' = Append(mx_grants, t)
    /\ ExecBody(t)
    /\ UNCHANGED <<result, state, reader, writer, link, rxData, orphans, ringVars,
                   in_raw_mode, mx_order, mgrVars>>
    /\ UNCHANGED sessRest

\* enter_raw_mode / execute: the wait for _read_lock ends.
ErmGranted(t) ==
    /\ pc[t] = "erm_wait_rl"
    /\ PauseGranted(t, "erm_wait_reader", "erm_send")
    /\ UNCHANGED <<result, state, reader, writer, link, rxData, orphans, ringVars,
                   in_raw_mode, mxVars, mgrVars>>
    /\ UNCHANGED sessRest

ExGranted(t) ==
    /\ pc[t] = "ex_wait_rl"
    /\ PauseGranted(t, "ex_wait_reader", "ex_drain")
    /\ UNCHANGED <<result, state, reader, writer, link, rxData, orphans, ringVars,
                   in_raw_mode, mxVars, mgrVars>>
    /\ UNCHANGED sessRest

\* enter_raw_mode (repl.py:58-67): Ctrl-C, drain, Ctrl-A.
ErmSend(t) ==
    /\ pc[t] = "erm_send"
    /\ IF CanWrite /\ CanRead
       THEN /\ pc' = [pc EXCEPT ![t] = "erm_read"]
            /\ rxData' = FALSE
            /\ UNCHANGED <<result, rlVars, mxVars, state, reader, writer, link,
                           ringVars, in_raw_mode, mgrVars>>
       ELSE ExecReturn(t, EnterFailed, rxData)
    /\ UNCHANGED sessRest

\* enter_raw_mode (repl.py:69-83): the prompt is seen or not.  When it is seen
\* enter_raw_mode resumes the reader and returns, and execute goes on to its own
\* pause_read_loop (repl.py:123) without an await in between.
ErmRead(t) ==
    /\ pc[t] = "erm_read"
    /\ \E seen \in BOOLEAN :
         IF CanRead /\ seen /\ rxData
         THEN /\ in_raw_mode' = TRUE
              /\ rxData' = FALSE
              /\ orphans' = ResumeOrphans(FALSE)
              /\ Pause(t, Release(read_lock), ResumeTask(FALSE), FALSE,
                       "ex_wait_rl", "ex_wait_reader", "ex_drain")
              /\ UNCHANGED <<result, mxVars, state, reader, writer, link, ringVars,
                             mgrVars>>
         ELSE ExecReturn(t, EnterFailed, IF CanRead THEN FALSE ELSE rxData)
    /\ UNCHANGED sessRest

\* execute (repl.py:126-130): drain, then write the source.
ExDrain(t) ==
    /\ pc[t] = "ex_drain"
    /\ IF CanRead /\ CanWrite
       THEN /\ pc' = [pc EXCEPT ![t] = "ex_eot"]
            /\ rxData' = FALSE
            /\ UNCHANGED <<result, rlVars, mxVars, state, reader, writer, link,
                           ringVars, in_raw_mode, mgrVars>>
       ELSE ExecReturn(t, Raised, IF CanRead THEN FALSE ELSE rxData)
    /\ UNCHANGED sessRest

\* execute (repl.py:133): Ctrl-D submits.
ExEot(t) ==
    /\ pc[t] = "ex_eot"
    /\ IF CanWrite
       THEN /\ pc' = [pc EXCEPT ![t] = "ex_wait_ok"]
            /\ UNCHANGED <<result, rlVars, mxVars, state, reader, writer, link,
                           rxData, ringVars, in_raw_mode, mgrVars>>
       ELSE ExecReturn(t, Raised, rxData)
    /\ UNCHANGED sessRest

\* execute (repl.py:136-142): read_until(OK).  On a timeout readuntil leaves the
\* buffer as it is.
ExWaitOk(t) ==
    /\ pc[t] = "ex_wait_ok"
    /\ \E ok \in BOOLEAN :
         IF ~CanRead THEN ExecReturn(t, Raised, rxData)
         ELSE IF ok /\ rxData
         THEN /\ pc' = [pc EXCEPT ![t] = "ex_resp"]
              /\ rxData' = FALSE
              /\ UNCHANGED <<result, rlVars, mxVars, state, reader, writer, link,
                             ringVars, in_raw_mode, mgrVars>>
         ELSE ExecReturn(t, NoOk, rxData)
    /\ UNCHANGED sessRest

\* execute (repl.py:148-169) with _read_raw_response: the terminator arrives.
ExResp(t) ==
    /\ pc[t] = "ex_resp"
    /\ IF ~CanRead THEN ExecReturn(t, Raised, rxData)
       ELSE /\ rxData
            /\ \E err \in {"", "Traceback"} : ExecReturn(t, Answered(err), FALSE)
    /\ UNCHANGED sessRest

\* execute (repl.py:155-160): the read phase runs out of time.
ExRespTimeout(t) ==
    /\ pc[t] = "ex_resp"
    /\ CanRead
    /\ ExecReturn(t, ExecTimeout, rxData)
    /\ UNCHANGED sessRest

\* A cancelled execute (its caller went away).  Waiting for a lock, it leaves
\* the queue; inside the exchange, the finally clauses run.  Cancelling a task
\* that awaits the reader task in pause_read_loop is swallowed there
\* (device.py:162-165), so it is no step of the model.
ExecCancel(t) ==
    /\ pc[t] \in {"wait_mutex", "erm_wait_rl", "ex_wait_rl", "erm_send", "erm_read",
                  "ex_drain", "ex_eot", "ex_wait_ok", "ex_resp"}
    /\ pc' = [pc EXCEPT ![t] = "cancelled"]
    /\ IF pc[t] = "wait_mutex"
       THEN /\ repl_lock' = Leave(repl_lock, t)
            /\ UNCHANGED <<mx_holder, rlVars>>
       ELSE /\ repl_lock' = Release(repl_lock)
            /\ mx_holder' = "none"
            /\ IF pc[t] \in {"erm_wait_rl", "ex_wait_rl"}
               THEN /\ read_lock' = Leave(read_lock, t)
                    /\ UNCHANGED <<rl_holder, read_task, read_loop_stopped, orphans>>
               ELSE Resume(rxData)
    /\ UNCHANGED <<result, state, reader, writer, link, rxData, ringVars, in_raw_mode,
                   mx_order, mx_grants, mgrVars>>
    /\ UNCHANGED sessRest

\* ------------------------------------------------------------ RawREPL.soft_reset
\* SerialManager.reset (manager.py:178-198) and soft_reset's pause (repl.py:261).
SoftStart ==
    /\ pc["s"] = "idle"
    /\ IF ~devices
       THEN /\ pc' = [pc EXCEPT !["s"] = "done"]
            /\ UNCHANGED rlVars
       ELSE /\ Pause("s", read_lock, read_task, read_loop_stopped,
                     "s_wait_rl", "s_wait_reader", "s_go")
            /\ UNCHANGED orphans
    /\ UNCHANGED <<result, state, reader, writer, link, rxData, ringVars, in_raw_mode,
                   mxVars, mgrVars>>
    /\ UNCHANGED sessRest

SoftGranted ==
    /\ pc["s"] = "s_wait_rl"
    /\ PauseGranted("s", "s_wait_reader", "s_go")
    /\ UNCHANGED <<result, state, reader, writer, link, rxData, orphans, ringVars,
                   in_raw_mode, mxVars, mgrVars>>
    /\ UNCHANGED sessRest

\* The finally of soft_reset (repl.py:278-279).
SoftReturn(rx) ==
    /\ Resume(rx)
    /\ pc' = [pc EXCEPT !["s"] = "done"]
    /\ rxData' = rx
    /\ UNCHANGED <<result, state, reader, writer, link, ringVars, mxVars, mgrVars>>

\* soft_reset (repl.py:264-269): in raw mode exit_raw_mode writes Ctrl-B and
\* sleeps; otherwise Ctrl-D is written at once.  A failed write in
\* exit_raw_mode is caught there and the Ctrl-D write fails next.
SoftGo ==
    /\ pc["s"] = "s_go"
    /\ IF CanWrite
       THEN /\ pc' = [pc EXCEPT !["s"] = IF in_raw_mode THEN "s_exit" ELSE "s_wait"]
            /\ UNCHANGED <<result, rlVars, mxVars, state, reader, writer, link,
                           rxData, ringVars, in_raw_mode, mgrVars>>
       ELSE SoftReturn(rxData) /\ UNCHANGED in_raw_mode
    /\ UNCHANGED sessRest

\* exit_raw_mode after its sleep (repl.py:93), then Ctrl-D (repl.py:268).
SoftExited ==
    /\ pc["s"] = "s_exit"
    /\ in_raw_mode' = FALSE
    /\ IF CanWrite
       THEN /\ pc' = [pc EXCEPT !["s"] = "s_wait"]
            /\ UNCHANGED <<result, rlVars, mxVars, state, reader, writer, link,
                           rxData, ringVars, mgrVars>>
       ELSE SoftReturn(rxData)
    /\ UNCHANGED sessRest

\* soft_reset (repl.py:272-279): the boot banner is read, or the read times out.
SoftFinish ==
    /\ pc["s"] = "s_wait"
    /\ UNCHANGED in_raw_mode
    /\ SoftReturn(IF CanRead THEN FALSE ELSE rxData)
    /\ UNCHANGED sessRest

\* ------------------------------------------------------------ Device._read_loop
LoopCondition == reader /\ ~AtEof(rxData) /\ ~read_loop_stopped

\* One turn of the loop (device.py:244-275): it ends when the condition fails,
\* takes what the stream holds into the ring, or dies of a read error.
ReaderRun ==
    /\ read_task \in {"new", "run"}
    /\ IF ~LoopCondition
       THEN /\ read_task' = "done"
            /\ pc' = [t \in Tasks |-> JoinPc(pc[t])]
            /\ UNCHANGED <<state, rxData, ringVars>>
       ELSE IF link = "error"
       THEN /\ read_task' = "done"
            /\ pc' = [t \in Tasks |-> JoinPc(pc[t])]
            /\ state' = "ERROR"
            /\ UNCHANGED <<rxData, ringVars>>
       ELSE /\ read_task = "new" \/ rxData
            /\ read_task' = "run"
            /\ rxData' = FALSE
            /\ ring' = IF rxData /\ ring < RingCap THEN ring + 1 ELSE ring
            /\ ring_in_exec' = (ring_in_exec \/ (rxData /\ mx_holder # "none"))
            /\ UNCHANGED <<pc, state>>
    /\ UNCHANGED <<result, reader, writer, link, orphans, read_loop_stopped,
                   read_lock, rl_holder, in_raw_mode, mxVars, mgrVars>>
    /\ UNCHANGED sessRest

\* The cancelled reader task ends (device.py:267-269); whoever awaits it goes on.
ReaderCancelled ==
    /\ read_task = "cancel"
    /\ read_task' = "done"
    /\ pc' = [t \in Tasks |-> JoinPc(pc[t])]
    /\ UNCHANGED <<result, state, reader, writer, link, rxData, orphans,
                   read_loop_stopped, read_lock, rl_holder, ringVars, in_raw_mode,
                   mxVars, mgrVars>>
    /\ UNCHANGED sessRest

\* ------------------------------------------------------------ Device.connect
\* SerialManager.connect (manager.py:76-92) and Device.connect (device.py:91-95).
ConnectStart ==
    /\ pc["c"] = "idle"
    /\ ~devices
    /\ state = "DISCONNECTED"
    /\ state' = "CONNECTING"
    /\ pc' = [pc EXCEPT !["c"] = "c_open"]
    /\ UNCHANGED <<result, reader, writer, link, rxData, rlVars, ringVars,
                   in_raw_mode, mxVars, mgrVars>>
    /\ UNCHANGED sessRest

\* open_serial_connection returns (device.py:98-107): the reader task is
\* created and _get_device_info pauses it at once; or the open fails
\* (device.py:114-118, manager.py:116-121).
ConnectOpened ==
    /\ pc["c"] = "c_open"
    /\ IF port_present
       THEN /\ reader' = TRUE
            /\ writer' = TRUE
            /\ link' = "open"
            /\ Pause("c", read_lock, "new", read_loop_stopped,
                     "c_wait_rl", "c_wait_reader", "c_probe")
            /\ UNCHANGED <<state, n_error>>
       ELSE /\ state' = "ERROR"
            /\ n_error' = n_error + 1
            /\ pc' = [pc EXCEPT !["c"] = "done"]
            /\ UNCHANGED <<reader, writer, link, read_lock, rl_holder, read_task,
                           read_loop_stopped>>
    /\ UNCHANGED <<result, rxData, orphans, ringVars, in_raw_mode, mxVars, devices,
                   port_present, known_ports, n_disconnected, n_connected>>
    /\ UNCHANGED sessRest

\* a connect that takes a probe without an answer for a failure
AfterProbeStrict(answered) == IF answered THEN "CONNECTED" ELSE "ERROR"
\* The state after the probe (device.py:107-110): _get_device_info returns
\* nothing and swallows its exceptions (device.py:316-317).
AfterProbe(answered) == "CONNECTED"

\* _get_device_info (device.py:282-319) ends, whether or not the probe got an
\* answer (its exceptions are swallowed); Device.connect sets CONNECTED and
\* SerialManager.connect registers the session (manager.py:94-115).
ConnectFinish ==
    /\ pc["c"] = "c_probe"
    /\ Resume(IF CanRead THEN FALSE ELSE rxData)
    /\ rxData' = IF CanRead THEN FALSE ELSE rxData
    /\ state' = AfterProbe(CanRead /\ rxData)
    /\ devices' = TRUE
    /\ n_connected' = n_connected + 1
    /\ pc' = [pc EXCEPT !["c"] = "done"]
    /\ UNCHANGED <<result, reader, writer, link, ringVars, in_raw_mode, mxVars,
                   port_present, known_ports, n_disconnected, n_error>>
    /\ UNCHANGED sessRest

\* ------------------------------------------------------------ Device.disconnect
\* Device.disconnect from writer.close() on (device.py:129-134): wait_closed
\* suspends until the transport reports connection_lost.
CloseWriter(t) ==
    IF link = "open"
    THEN /\ link' = "closing"
         /\ pc' = [pc EXCEPT ![t] = "d_wait_closed"]
         /\ UNCHANGED <<state, reader, writer, n_disconnected>>
    ELSE \* the transport is gone already: wait_closed returns or raises at once
         /\ reader' = FALSE
         /\ writer' = FALSE
         /\ state' = "DISCONNECTED"
         /\ n_disconnected' = n_disconnected + 1
         /\ pc' = [pc EXCEPT ![t] = "done"]
         /\ UNCHANGED link

\* SerialManager.disconnect (manager.py:127-132) pops the session, and
\* Device.disconnect cancels the reader task and awaits it (device.py:122-127).
\* A read of the reader task's wait_for has completed and the task has not
\* run since (device.py:248-251).  asyncio.wait_for of Python 3.11 and older
\* then returns the chunk to a task that is cancelled and the CancelledError
\* is lost; later versions raise it.  The interpreter is not pinned by the
\* repository.
ReadCompleted == read_task = "run" /\ rxData /\ link # "error"

\* The cancel of Device.disconnect (device.py:122-124), which does not set
\* _read_loop_stopped: when the CancelledError is lost the chunk goes to the
\* ring and the loop goes on (device.py:244, 253-264).  (pause_read_loop has
\* set the flag, so there the loop ends after the chunk as if cancelled.)
AfterCancel(lost) == IF lost THEN "run" ELSE "cancel"

Disconnect(t) ==
    /\ devices' = FALSE
    /\ IF read_task \in {"new", "run", "cancel"}
       THEN /\ \E lost \in {FALSE, ReadCompleted} :
                 /\ read_task' = AfterCancel(lost)
                 /\ rxData' = (rxData /\ ~lost)
                 /\ ring' = IF lost /\ ring < RingCap THEN ring + 1 ELSE ring
                 /\ ring_in_exec' = (ring_in_exec \/ (lost /\ mx_holder # "none"))
            /\ pc' = [pc EXCEPT ![t] = "d_wait_reader"]
            /\ UNCHANGED <<state, reader, writer, link, n_disconnected>>
       ELSE /\ CloseWriter(t)
            /\ UNCHANGED <<read_task, rxData, ringVars>>

DisconnectStart ==
    /\ pc["d"] = "idle"
    /\ IF devices
       THEN Disconnect("d")
       ELSE /\ pc' = [pc EXCEPT !["d"] = "done"]
            /\ UNCHANGED <<state, reader, writer, link, read_task, devices,
                           n_disconnected, rxData, ringVars>>
    /\ UNCHANGED <<result, orphans, read_loop_stopped, read_lock, rl_holder,
                   in_raw_mode, mxVars, port_present, known_ports,
                   n_connected, n_error>>
    /\ UNCHANGED sessRest

\* The reader task has ended: close the writer.
DisconnectClose(t) ==
    /\ pc[t] = "d_close"
    /\ CloseWriter(t)
    /\ UNCHANGED <<result, rxData, rlVars, ringVars, in_raw_mode, mxVars, devices,
                   port_present, known_ports, n_connected, n_error>>
    /\ UNCHANGED sessRest

\* wait_closed returned (device.py:136-140), then DEVICE_DISCONNECTED
\* (manager.py:133-137).
DisconnectFinish(t) ==
    /\ pc[t] = "d_wait_closed"
    /\ link = "eof"
    /\ reader' = FALSE
    /\ writer' = FALSE
    /\ state' = "DISCONNECTED"
    /\ n_disconnected' = n_disconnected + 1
    /\ pc' = [pc EXCEPT ![t] = "done"]
    /\ UNCHANGED <<result, link, rxData, rlVars, ringVars, in_raw_mode, mxVars,
                   devices, port_present, known_ports, n_connected, n_error>>
    /\ UNCHANGED sessRest

\* ------------------------------------------------------------ port watcher
\* PortDiscovery._monitor_loop (discovery.py:119-136) finds the port gone and
\* calls SerialManager._on_ports_changed (manager.py:271-274), which
\* disconnects the session registered for it.
WatchRemoved ==
    /\ pc["w"] = "idle"
    /\ known_ports /\ ~port_present
    /\ known_ports' = FALSE
    /\ IF devices
       THEN Disconnect("w")
       ELSE /\ pc' = [pc EXCEPT !["w"] = "done"]
            /\ UNCHANGED <<state, reader, writer, link, read_task, devices,
                           n_disconnected, rxData, ringVars>>
    /\ UNCHANGED <<result, orphans, read_loop_stopped, read_lock, rl_holder,
                   in_raw_mode, mxVars, port_present, n_connected, n_error>>
    /\ UNCHANGED sessRest

\* ------------------------------------------------------------ environment
\* The device sends bytes.
DeviceSend ==
    /\ link = "open"
    /\ ~rxData
    /\ rxData' = TRUE
    /\ UNCHANGED <<pc, result, state, reader, writer, link, rlVars, ringVars,
                   in_raw_mode, mxVars, mgrVars>>
    /\ UNCHANGED sessRest

\* The transport fails (SerialException): connection_lost(exc) sets the
\* exception on the StreamReader.
LinkError ==
    /\ link = "open"
    /\ link' = "error"
    /\ UNCHANGED <<pc, result, state, reader, writer, rxData, rlVars, ringVars,
                   in_raw_mode, mxVars, mgrVars>>
    /\ UNCHANGED sessRest

\* The closed transport reports connection_lost(None): EOF is fed.
ConnectionLost ==
    /\ link = "closing"
    /\ link' = "eof"
    /\ UNCHANGED <<pc, result, state, reader, writer, rxData, rlVars, ringVars,
                   in_raw_mode, mxVars, mgrVars>>
    /\ UNCHANGED sessRest

\* The port is unplugged.
PortRemoved ==
    /\ port_present
    /\ port_present' = FALSE
    /\ UNCHANGED <<pc, result, state, reader, writer, link, rxData, rlVars, ringVars,
                   in_raw_mode, mxVars, devices, known_ports, n_disconnected,
                   n_connected, n_error>>
    /\ UNCHANGED sessRest

\* ------------------------------------------------------------ one raw-REPL reply
\* Bytes are one-character strings, EOT is 0x04 (CTRL_D, repl.py:18); a byte
\* string is a sequence of them.  The texts tried are ASCII, which
\* bytes.decode (repl.py:162-163) maps to the same characters.
EOT == "EOT"
OK == <<"O", "K">>
EndMarker == <<EOT, ">">>
Alphabet == {"a", ">"}
MaxText == 2
ReadSize == 1024
Texts == UNION {[1..n -> Alphabet] : n \in 0..MaxText}

\* The raw-REPL answer to one submission.
Reply(o, e) == OK \o o \o <<EOT>> \o e \o EndMarker

Min(a, b) == IF a <= b THEN a ELSE b
Drop(s, n) == SubSeq(s, n + 1, Len(s))
StartsAt(s, i, pat) == i + Len(pat) - 1 <= Len(s) /\ SubSeq(s, i, i + Len(pat) - 1) = pat
\* bytes.find + 1: where pat first starts in s, 0 if nowhere
Find(s, pat) ==
    IF \E i \in 1..Len(s) : StartsAt(s, i, pat)
    THEN CHOOSE i \in 1..Len(s) :
             StartsAt(s, i, pat) /\ \A j \in 1..(i - 1) : ~StartsAt(s, j, pat)
    ELSE 0
\* the loose end test of a broken codec: the first byte of the marker ends the reply
EndsLoose(s, suf) == Find(s, <<suf[1]>>) > 0
\* bytes.endswith
EndsWith(s, suf) == Len(s) >= Len(suf) /\ Drop(s, Len(s) - Len(suf)) = suf

\* bytes.split(sep) for a one-byte separator
RECURSIVE Split(_, _)
Split(s, sep) ==
    LET i == Find(s, <<sep>>)
    IN  IF i = 0 THEN <<s>> ELSE <<SubSeq(s, 1, i - 1)>> \o Split(Drop(s, i), sep)

\* bytes.rstrip(ch) for one byte
RECURSIVE RStrip(_, _)
RStrip(s, ch) ==
    IF s # <<>> /\ s[Len(s)] = ch THEN RStrip(SubSeq(s, 1, Len(s) - 1), ch) ELSE s

\* _read_raw_response's parse (repl.py:201-207)
ParseResponse(d) ==
    LET parts == Split(d, EOT)
    IN  IF Len(parts) >= 2
        THEN <<parts[1], RStrip(parts[2], ">")>>
        ELSE <<<<>>, <<>>>>

\* the results of execute's reply phase (repl.py:137-169); a fixed message is
\* a one-element text
RawNoOk == REPLResult(<<>>, <<"No OK response from device">>, FALSE)
RawTimeout == REPLResult(<<>>, <<"Execution timeout">>, FALSE)
\* a codec that calls every parsed answer a success
RawAnswerOk(p) == REPLResult(p[1], p[2], TRUE)
RawAnswer(p) == REPLResult(p[1], p[2], p[2] = <<>>)

rawRest == <<svars, busVars, lspVars, toolVars, stdout, stderr>>

\* The device sends the next bytes of its reply, in chunks of any size.
RawDeviceEmit ==
    /\ wire # <<>>
    /\ \E k \in 1..Len(wire) :
          /\ buf' = buf \o SubSeq(wire, 1, k)
          /\ sent' = sent \o SubSeq(wire, 1, k)
          /\ wire' = Drop(wire, k)
    /\ UNCHANGED <<rawRest, data, rpc, reply>>

\* read_until(b"OK") returns (repl.py:136, device.py:216-219): readuntil
\* takes the buffer up to the first OK.
RawWaitOk ==
    /\ rpc = "wait_ok"
    /\ Find(buf, OK) > 0
    /\ buf' = Drop(buf, Find(buf, OK) + 1)
    /\ data' = <<>>
    /\ rpc' = "resp"
    /\ UNCHANGED <<rawRest, wire, sent, reply>>

\* read_until times out (device.py:220-221): "OK" is not in b"" (repl.py:137-142).
RawWaitOkTimeout ==
    /\ rpc = "wait_ok"
    /\ Find(buf, OK) = 0
    /\ reply' = RawNoOk
    /\ rpc' = "done"
    /\ UNCHANGED <<rawRest, wire, sent, buf, data>>

\* One turn of _read_raw_response's loop with a chunk (repl.py:191-199), and
\* its parse when the chunk ends the reply (repl.py:201-207, 162-169).
RawRead ==
    /\ rpc = "resp"
    /\ buf # <<>>
    /\ LET n == Min(Len(buf), ReadSize)
           d == data \o SubSeq(buf, 1, n)
       IN  /\ buf' = Drop(buf, n)
           /\ data' = d
           /\ IF EndsWith(d, EndMarker)
              THEN /\ reply' = RawAnswer(ParseResponse(d))
                   /\ rpc' = "done"
              ELSE UNCHANGED <<reply, rpc>>
    /\ UNCHANGED <<rawRest, wire, sent>>

\* wait_for(_read_raw_response(), timeout) expires (repl.py:149-160).  An empty
\* chunk (device.py:192-193, repl.py:194-195) changes nothing and is no action.
RawExecTimeout ==
    /\ rpc = "resp"
    /\ reply' = RawTimeout
    /\ rpc' = "done"
    /\ UNCHANGED <<rawRest, wire, sent, buf, data>>

\* ------------------------------------------------------------ EventBus
\* Events carry their type, their source port ("" for none) and, as data, the
\* number of the emission.
Kinds == {"DEVICE_OUTPUT", "DEVICE_CONNECTED"}
Ports == {"p1", "p2"}
Sources == {"", "p1"}
Clients == {"ws1", "ws2"}
Handlers == {"on_output", "_on_event"}
MaxEvents == 2

\* a dispatcher that takes the newest event first
DequeueLifo(q) == q[Len(q)]
\* asyncio.Queue.get (events.py:184-187): the oldest event
Dequeue(q) == Head(q)

busRest == <<svars, rawVars, lspVars, toolVars>>

\* EventBus.emit and publish (events.py:130-158): put_nowait on the queue.
Emit(k, src) ==
    /\ Len(emitted) < MaxEvents
    /\ LET e == [type |-> k, source |-> src, data |-> Len(emitted) + 1]
       IN  /\ queue' = Append(queue, e)
           /\ emitted' = Append(emitted, e)
    /\ UNCHANGED <<busRest, unsubscribed, bpc, event, hlog, connections, subscriptions, sendlist,
                   wslog>>

\* _process_events takes the next event (events.py:182-191).  The dispatcher
\* runs until EventBus.stop cancels its task (events.py:169-178): the
\* CancelledError ends it wherever it waits.
BusTake ==
    /\ dispatching
    /\ bpc = "get"
    /\ queue # <<>>
    /\ event' = Dequeue(queue)
    /\ queue' = Tail(queue)
    /\ bpc' = "kind"
    /\ UNCHANGED <<busRest, unsubscribed, emitted, hlog, connections, subscriptions, sendlist, wslog>>

\* The handlers of the event's type are awaited (events.py:193-199): on_output
\* is subscribed to DEVICE_OUTPUT.
BusKind ==
    /\ dispatching
    /\ bpc = "kind"
    /\ hlog' = IF event.type = "DEVICE_OUTPUT"
               THEN [hlog EXCEPT !["on_output"] = Append(@, event)]
               ELSE hlog
    /\ bpc' = "global"
    /\ UNCHANGED <<busRest, unsubscribed, queue, emitted, event, connections, subscriptions,
                   sendlist, wslog>>

\* The global handler WebSocketHandler._on_event is called (events.py:201-206)
\* and snapshots the connections (websocket.py:151-160); it is the one
\* subscriber of the bus, until WebSocketHandler.stop unsubscribes it.
BusOnEvent ==
    /\ dispatching
    /\ bpc = "global"
    /\ IF ws_subscribed
       THEN /\ hlog' = [hlog EXCEPT !["_on_event"] = Append(@, event)]
            /\ sendlist' = connections
            /\ bpc' = "send"
       ELSE \* the list of global handlers is empty
            /\ bpc' = "get"
            /\ UNCHANGED <<hlog, sendlist>>
    /\ UNCHANGED <<busRest, unsubscribed, queue, emitted, event, connections, subscriptions, wslog>>

\* a filter that forgets the events without a source
MatchesPortOnly(subs, port) == subs = {} \/ port \in subs
\* the subscription filter (websocket.py:163-166)
Matches(subs, port) == subs = {} \/ port \in subs \/ port = ""

\* _on_event visits one client (websocket.py:160-172): the event is written
\* to it if the filter passes; a failed send drops the client.
WsSend(c) ==
    /\ dispatching
    /\ bpc = "send"
    /\ c \in sendlist
    /\ sendlist' = sendlist \ {c}
    /\ IF Matches(subscriptions[c], event.source)
       THEN \/ /\ c \in connections
               /\ wslog' = [wslog EXCEPT ![c] = Append(@, event)]
               /\ UNCHANGED connections
            \/ /\ connections' = connections \ {c}
               /\ UNCHANGED wslog
       ELSE UNCHANGED <<connections, wslog>>
    /\ UNCHANGED <<busRest, unsubscribed, queue, emitted, bpc, event, hlog, subscriptions>>

\* _on_event returns; the dispatcher goes back to the queue.
BusSendDone ==
    /\ dispatching
    /\ bpc = "send"
    /\ sendlist = {}
    /\ bpc' = "get"
    /\ UNCHANGED <<busRest, unsubscribed, queue, emitted, event, hlog, connections, subscriptions,
                   sendlist, wslog>>

\* WebSocketHandler.handle accepts a client (websocket.py:67-71).
WsConnect(c) ==
    /\ c \notin connections
    /\ c \notin sendlist
    /\ wslog[c] = <<>>
    /\ connections' = connections \cup {c}
    /\ subscriptions' = [subscriptions EXCEPT ![c] = {}]
    /\ UNCHANGED <<busRest, unsubscribed, queue, emitted, bpc, event, hlog, sendlist, wslog>>

\* The client goes away (websocket.py:86-89).
WsDisconnect(c) ==
    /\ c \in connections
    /\ connections' = connections \ {c}
    /\ subscriptions' = [subscriptions EXCEPT ![c] = {}]
    /\ UNCHANGED <<busRest, unsubscribed, queue, emitted, bpc, event, hlog, sendlist, wslog>>

\* A subscribe or unsubscribe message (websocket.py:103-115).
WsSubscribe(c, port) ==
    /\ c \in connections
    /\ port \notin subscriptions[c]
    /\ subscriptions' = [subscriptions EXCEPT ![c] = @ \cup {port}]
    /\ unsubscribed' = [unsubscribed EXCEPT ![c] = @ \ {port}]
    /\ UNCHANGED <<busRest, queue, emitted, bpc, event, hlog, connections, sendlist,
                   wslog>>

WsUnsubscribe(c, port) ==
    /\ c \in connections
    /\ port \in subscriptions[c]
    /\ subscriptions' = [subscriptions EXCEPT ![c] = @ \ {port}]
    /\ unsubscribed' = [unsubscribed EXCEPT ![c] = @ \cup {port}]
    /\ UNCHANGED <<busRest, queue, emitted, bpc, event, hlog, connections, sendlist,
                   wslog>>

\* ------------------------------------------------------------ LSPManager
\* The WebSocket handler and the API server each keep an LSPManager of their
\* own (websocket.py:184-200, api.py:884-889).  i1 and i2 are lsp:initialize
\* messages of two WebSocket clients, i3 is a POST /api/lsp/initialize; r1 and
\* r2 are requests sent through the WebSocket handler's manager.
Owners == {"ws", "api"}
InitTasks == {"i1", "i2", "i3"}
Requesters == {"r1", "r2"}
MaxServerMsgs == 3
Owner(i) == IF i = "i3" THEN "api" ELSE "ws"
NoMessage == [id |-> 0, kind |-> "none"]

lspRest == <<svars, rawVars, busVars, toolVars>>
spawnVars == <<process, children, spawned, ipc>>
lifeVars == <<initialized, lsp_read_task>>
reqVars == <<request_id, pending_requests, resolved, rid, rstate, got, issued,
             unanswered, srv_msgs>>

\* LSPManager.is_running (manager.py:508-510): there is a process and it has
\* no return code
IsRunning(m) == process[m] # 0 /\ process[m] \in children

\* What the handler does once the manager is started (websocket.py:224-237,
\* api.py:913-924): the handshake, or the answer "already initialized".
AfterStart(m) == IF initialized[m] THEN "already" ELSE "handshake"

\* _handle_lsp_initialize / _lsp_initialize up to the spawn (websocket.py:209-216,
\* api.py:902-908) and LSPManager.start up to create_subprocess_exec
\* (manager.py:61-69).  The owners drop their manager after a shutdown; the
\* model follows each manager up to its shutdown.
\* start returns True without spawning when _process is set, running or not
\* (manager.py:61-63).
LspInitialize(i) ==
    /\ ipc[i] = "idle"
    /\ sd = "idle"
    /\ ipc' = [ipc EXCEPT ![i] =
                  IF IsRunning(Owner(i)) \/ process[Owner(i)] # 0
                  THEN AfterStart(Owner(i))
                  ELSE "spawning"]
    /\ UNCHANGED <<lspRest, process, children, spawned, lifeVars, reqVars, sd>>

\* create_subprocess_exec returns (manager.py:69-83) or fails (manager.py:85-90).
LspSpawned(i) ==
    /\ ipc[i] = "spawning"
    /\ \/ /\ spawned' = spawned + 1
          /\ children' = children \cup {spawned + 1}
          /\ process' = [process EXCEPT ![Owner(i)] = spawned + 1]
          /\ lsp_read_task' = IF Owner(i) = "ws" THEN "run" ELSE lsp_read_task
          /\ ipc' = [ipc EXCEPT ![i] = AfterStart(Owner(i))]
       \/ /\ ipc' = [ipc EXCEPT ![i] = "failed"]
          /\ UNCHANGED <<process, children, spawned, lsp_read_task>>
    /\ UNCHANGED <<lspRest, initialized, reqVars, sd>>

\* LSPManager.initialize (manager.py:101-149): the initialize request is
\* answered, the initialized notification written and _initialized set; or
\* the request fails (no answer within its timeout, a broken pipe) and the
\* handler reports lsp:error.  The request is followed to its outcome only.
LspHandshake(i) ==
    /\ ipc[i] = "handshake"
    /\ \/ /\ IsRunning(Owner(i))
          /\ Owner(i) = "ws" => lsp_read_task = "run"
          /\ initialized' = [initialized EXCEPT ![Owner(i)] = TRUE]
          /\ ipc' = [ipc EXCEPT ![i] = "initialized"]
       \/ /\ ipc' = [ipc EXCEPT ![i] = "error"]
          /\ UNCHANGED initialized
    /\ UNCHANGED <<lspRest, process, children, spawned, lsp_read_task, reqVars, sd>>

\* The child exits by itself: its return code is set and its stdout is at
\* EOF, which ends the reader (manager.py:273-276).
ChildExits(m) ==
    /\ IsRunning(m)
    /\ sd = "idle"
    /\ children' = children \ {process[m]}
    /\ lsp_read_task' = IF m = "ws" THEN "ended" ELSE lsp_read_task
    /\ UNCHANGED <<lspRest, process, spawned, ipc, initialized, reqVars, sd>>

\* send_request's id (manager.py:217-218)
NextId(n) == n + 1

\* send_request up to the wait for the response (manager.py:213-234).
SendRequest(r) ==
    /\ rstate[r] = "idle"
    /\ IF process["ws"] = 0
       THEN /\ rstate' = [rstate EXCEPT ![r] = "not_running"]
            /\ UNCHANGED <<request_id, pending_requests, rid, issued, unanswered>>
       ELSE /\ request_id' = NextId(request_id)
            /\ rid' = [rid EXCEPT ![r] = request_id']
            /\ issued' = Append(issued, request_id')
            /\ pending_requests' = pending_requests \cup {request_id'}
            /\ unanswered' = unanswered \cup {request_id'}
            /\ rstate' = [rstate EXCEPT ![r] = "waiting"]
    /\ UNCHANGED <<lspRest, spawnVars, lifeVars, resolved, got, srv_msgs, sd>>

\* _handle_message for a message that carries an id (manager.py:292-309): the
\* future registered under the id is resolved unless it is done.
HandleMessage(m) ==
    /\ IF m.id \in pending_requests /\ m.id \notin resolved
       THEN /\ resolved' = resolved \cup {m.id}
            /\ got' = [r \in Requesters |-> IF rid[r] = m.id THEN m ELSE got[r]]
       ELSE UNCHANGED <<resolved, got>>
    /\ srv_msgs' = srv_msgs + 1

ReaderRunning == IsRunning("ws") /\ lsp_read_task = "run" /\ sd \in {"idle", "wait_resp"}

\* One frame on the child's stdout: its Content-Length header (absent, not a
\* number, 0 or the body's length) and its body (a JSON value or not).
Frames == [length : {"missing", "text", "zero", "number"}, body : {"json", "text"}]

\* JSONRPCProtocol.decode (protocol.py:59-80): None, here <<>>, for a frame
\* without a usable Content-Length, with an empty body or with a body that is
\* not JSON; the message otherwise.
Decode(f) ==
    IF f.length \in {"missing", "text", "zero"} \/ f.body # "json" THEN <<>> ELSE <<f>>

\* _read_responses (manager.py:271-276): a decode that returns None ends the
\* loop.
AfterDecode(d) == IF d = <<>> THEN "ended" ELSE "run"

\* The server writes a frame that is not well formed.
ServerSendsMalformed ==
    /\ ReaderRunning
    /\ srv_msgs < MaxServerMsgs
    /\ \E f \in Frames :
          /\ Decode(f) = <<>>
          /\ lsp_read_task' = AfterDecode(Decode(f))
    /\ srv_msgs' = srv_msgs + 1
    /\ UNCHANGED <<lspRest, spawnVars, initialized, request_id, pending_requests, resolved,
                   rid, rstate, got, issued, unanswered, sd>>

\* The server answers a request, with a result or an error; the reader task
\* reads the message and handles it (manager.py:271-279).
ServerResponds ==
    /\ ReaderRunning
    /\ srv_msgs < MaxServerMsgs
    /\ \E id \in unanswered, k \in {"result", "error"} :
          /\ HandleMessage([id |-> id, kind |-> k])
          /\ unanswered' = unanswered \ {id}
    /\ UNCHANGED <<lspRest, spawnVars, lifeVars, request_id, pending_requests, rid, rstate,
                   issued, sd>>

\* The server repeats an answer it has given.
ServerRepeats ==
    /\ ReaderRunning
    /\ srv_msgs < MaxServerMsgs
    /\ \E id \in 1..request_id, k \in {"result", "error"} :
          /\ id \notin unanswered
          /\ HandleMessage([id |-> id, kind |-> k])
    /\ UNCHANGED <<lspRest, spawnVars, lifeVars, request_id, pending_requests, rid,
                   rstate, issued, unanswered, sd>>

\* The server sends a request of its own (workspace/configuration, say): it
\* has an id from the server's own counter and a method, no result.
ServerRequests ==
    /\ ReaderRunning
    /\ srv_msgs < MaxServerMsgs
    /\ \E id \in 0..request_id : HandleMessage([id |-> id, kind |-> "request"])
    /\ UNCHANGED <<lspRest, spawnVars, lifeVars, request_id, pending_requests, rid,
                   rstate, issued, unanswered, sd>>

\* wait_for returns the future's outcome, or times out; the finally clause
\* pops the id (manager.py:234-242).
RequestReturns(r) ==
    /\ rstate[r] = "waiting"
    /\ rstate' = [rstate EXCEPT ![r] =
                     IF rid[r] \in resolved
                     THEN (IF got[r].kind = "error" THEN "error" ELSE "result")
                     ELSE "timeout"]
    /\ pending_requests' = pending_requests \ {rid[r]}
    /\ UNCHANGED <<lspRest, spawnVars, lifeVars, request_id, resolved, rid, got, issued,
                   unanswered, srv_msgs, sd>>

\* LSPManager.shutdown sends its shutdown request (manager.py:155-160).
ShutdownStart ==
    /\ sd = "idle"
    /\ process["ws"] # 0
    /\ \A i \in InitTasks : ipc[i] # "spawning"
    /\ request_id' = NextId(request_id)
    /\ issued' = Append(issued, request_id')
    /\ pending_requests' = pending_requests \cup {request_id'}
    /\ sd' = "wait_resp"
    /\ UNCHANGED <<lspRest, spawnVars, lifeVars, resolved, rid, rstate, got, unanswered,
                   srv_msgs>>

\* the id of shutdown's own request: the one issued to no requester
ShutdownId ==
    CHOOSE id \in {issued[k] : k \in 1..Len(issued)} : \A r \in Requesters : rid[r] # id

\* The shutdown request is answered or times out after 5 s; the exit
\* notification is written and the reader task is cancelled (manager.py:160-176).
ShutdownReader ==
    /\ sd = "wait_resp"
    /\ pending_requests' = pending_requests \ {ShutdownId}
    /\ lsp_read_task' = "none"
    /\ sd' = "terminating"
    /\ UNCHANGED <<lspRest, spawnVars, initialized, request_id, resolved, rid, rstate,
                   got, issued, unanswered, srv_msgs>>

\* The child is terminated and the manager reset (manager.py:178-191): the
\* dict of pending requests is cleared, the futures in it are left alone.
ShutdownFinish ==
    /\ sd = "terminating"
    /\ children' = children \ {process["ws"]}
    /\ process' = [process EXCEPT !["ws"] = 0]
    /\ initialized' = [initialized EXCEPT !["ws"] = FALSE]
    /\ pending_requests' = {}
    /\ sd' = "done"
    /\ UNCHANGED <<lspRest, spawned, ipc, lsp_read_task, request_id, resolved, rid,
                   rstate, got, issued, unanswered, srv_msgs>>



\* ------------------------------------------------------------ FileTransfer
\* A file operation is a series of RawREPL.execute calls.  One call is one
\* exchange with the device and is atomic here: the codec mutex serializes the
\* exchanges (repl.py:113).  Nothing is held between two exchanges of one
\* operation (file_transfer.py, manager.py:209-232).  The device runs every
\* program it is sent as MicroPython does.  File bytes are numbers 0..255,
\* program output is a sequence of characters, "CR" and "LF" among them.
FileTasks == {"f1", "f2"}
\* "f3" is another client's read_file of the path "f1" writes
FileClients == FileTasks \cup {"f3"}
\* the file a task writes and reads back; its parent is "/", for which
\* write_file makes no directory (file_transfer.py:138-141)
Path(t) == IF t = "f2" THEN "/b.bin" ELSE "/a.bin"
CHUNK_SIZE == 512
MaxShort == 3
MaxChunks == 2
\* the exchanges followed; a read loop that does not advance is left there
MaxLog == 12
ShortBytes == {0, 4, 10, 62, 255}

ftRest == <<svars, rawVars, busVars, lspVars, mkVars, syncVars, appVars, ioVars>>

\* ---- text and base64
Whitespace == {" ", "CR", "LF"}
Digits == <<"0", "1", "2", "3", "4", "5", "6", "7", "8", "9">>
B64Chars == <<"A", "B", "C", "D", "E", "F", "G", "H", "I", "J", "K", "L", "M",
              "N", "O", "P", "Q", "R", "S", "T", "U", "V", "W", "X", "Y", "Z",
              "a", "b", "c", "d", "e", "f", "g", "h", "i", "j", "k", "l", "m",
              "n", "o", "p", "q", "r", "s", "t", "u", "v", "w", "x", "y", "z",
              "0", "1", "2", "3", "4", "5", "6", "7", "8", "9", "+", "/">>
Pad == "="

\* print(x) on the device: the text and "\r\n"
Println(s) == s \o <<"CR", "LF">>
\* print('ERROR:', e)
ErrorText == <<"E", "R", "R", "O", "R", ":", " ", "e">>
\* the traceback of an uncaught exception, on stderr
Traceback == <<"T", "r", "a", "c", "e", "b", "a", "c", "k">>

\* str(n) for n >= 0
RECURSIVE Str(_)
Str(n) == IF n < 10 THEN <<Digits[n + 1]>> ELSE Str(n \div 10) \o <<Digits[(n % 10) + 1]>>

\* str.strip()
RECURSIVE Strip(_)
Strip(s) ==
    IF s = <<>> THEN s
    ELSE IF s[1] \in Whitespace THEN Strip(Tail(s))
    ELSE IF s[Len(s)] \in Whitespace THEN Strip(SubSeq(s, 1, Len(s) - 1))
    ELSE s

\* int(s): the value of a string of digits; anything else raises ValueError
IsInt(s) == s # <<>> /\ \A i \in 1..Len(s) : \E d \in 1..10 : Digits[d] = s[i]
DigitValue(ch) == (CHOOSE d \in 1..10 : Digits[d] = ch) - 1
RECURSIVE ParseInt(_)
ParseInt(s) ==
    IF Len(s) = 1 THEN DigitValue(s[1])
    ELSE 10 * ParseInt(SubSeq(s, 1, Len(s) - 1)) + DigitValue(s[Len(s)])

Octet(c, i) == IF i <= Len(c) THEN c[i] ELSE 0
\* base64.b64encode(c).decode(), and on the device
\* ubinascii.b2a_base64(c).decode().strip(): 3 bytes make 4 characters, the
\* last group is padded
B64Encode(c) ==
    [i \in 1..(4 * ((Len(c) + 2) \div 3)) |->
        LET g == (i - 1) \div 4
            k == (i - 1) % 4
            v == Octet(c, 3 * g + 1) * 65536 + Octet(c, 3 * g + 2) * 256
                     + Octet(c, 3 * g + 3)
        IN  IF 3 * g + k > Len(c) THEN Pad
            ELSE B64Chars[((v \div (64 ^ (3 - k))) % 64) + 1]]

Sextet(ch) == IF ch = Pad THEN 0 ELSE (CHOOSE i \in 1..64 : B64Chars[i] = ch) - 1
Pads(s) ==
    IF Len(s) >= 2 /\ s[Len(s) - 1] = Pad THEN 2
    ELSE IF Len(s) >= 1 /\ s[Len(s)] = Pad THEN 1
    ELSE 0
\* base64.b64decode(s), and on the device ubinascii.a2b_base64(s), of padded
\* base64 text
B64Decode(s) ==
    [j \in 1..(3 * (Len(s) \div 4) - Pads(s)) |->
        LET g == (j - 1) \div 3
            k == (j - 1) % 3
            v == Sextet(s[4 * g + 1]) * 262144 + Sextet(s[4 * g + 2]) * 4096
                     + Sextet(s[4 * g + 3]) * 64 + Sextet(s[4 * g + 4])
        IN  (v \div (256 ^ (2 - k))) % 256]

\* RawREPL.execute with a device that prints out and raises err: after
\* read_until has taken "OK" (repl.py:136), _read_raw_response reads the rest
\* of the reply and parses it (repl.py:145-169)
Exchange(out, err) == RawAnswer(ParseResponse(Drop(Reply(out, err), Len(OK))))

\* ---- write_file
\* a writer that sends the head of the content as every chunk
ChunkFromStart(c, off, n) == SubSeq(c, 1, n)
\* content[offset:offset + chunk_size] (file_transfer.py:156)
Chunk(c, off, n) == SubSeq(c, off + 1, off + n)
\* min(CHUNK_SIZE, total - offset) (file_transfer.py:155, 108)
ChunkSize(total, off) == Min(CHUNK_SIZE, total - off)

FileOpen(p) == [q \in DOMAIN dev_files \cup {p} |-> IF q = p THEN <<>> ELSE dev_files[q]]
Logged(t, op) == Append(xlog, <<t, op>>)

\* f = open(path, 'wb') (file_transfer.py:144-151): the file is created or
\* truncated and the device's global f is the new handle.
WriteOpen(t) ==
    /\ fpc[t] = "w_open"
    /\ dev_files' = FileOpen(Path(t))
    /\ dev_f' = Path(t)
    /\ offset' = [offset EXCEPT ![t] = 0]
    /\ LET res == Exchange(<<>>, <<>>)
       IN  fpc' = [fpc EXCEPT ![t] =
                      IF res.error # <<>> THEN "failed"
                      ELSE IF 0 < Len(content[t]) THEN "w_chunk" ELSE "w_close"]
    /\ xlog' = Logged(t, "write_file")
    /\ UNCHANGED <<ftRest, content, file_size, rcontent>>

\* One turn of the write loop (file_transfer.py:154-171): the device appends the
\* decoded chunk to whatever file its global f is; f.write raises if f is closed.
WriteChunk(t) ==
    /\ fpc[t] = "w_chunk"
    /\ LET n == ChunkSize(Len(content[t]), offset[t])
           b64_chunk == B64Encode(Chunk(content[t], offset[t], n))
           open == dev_f \in DOMAIN dev_files
           res == IF open THEN Exchange(<<>>, <<>>) ELSE Exchange(<<>>, Traceback)
       IN  /\ dev_files' = IF open
                           THEN [dev_files EXCEPT ![dev_f] = @ \o B64Decode(b64_chunk)]
                           ELSE dev_files
           /\ IF res.error # <<>>
              THEN /\ fpc' = [fpc EXCEPT ![t] = "w_abort"]
                   /\ UNCHANGED offset
              ELSE /\ offset' = [offset EXCEPT ![t] = @ + n]
                   /\ fpc' = [fpc EXCEPT ![t] =
                                 IF offset[t] + n < Len(content[t])
                                 THEN "w_chunk" ELSE "w_close"]
    /\ xlog' = Logged(t, "write_file")
    /\ UNCHANGED <<ftRest, content, file_size, rcontent, dev_f>>

\* f.close() and return True (file_transfer.py:173-177); the caller goes on to
\* read the file back.
WriteClose(t) ==
    /\ fpc[t] = "w_close"
    /\ dev_f' = "closed"
    /\ fpc' = [fpc EXCEPT ![t] = "r_stat"]
    /\ xlog' = Logged(t, "write_file")
    /\ UNCHANGED <<ftRest, content, offset, file_size, rcontent, dev_files>>

\* The error path (file_transfer.py:179-185): f.close(), then the IOError is
\* raised again.
WriteAbort(t) ==
    /\ fpc[t] = "w_abort"
    /\ dev_f' = "closed"
    /\ fpc' = [fpc EXCEPT ![t] = "failed"]
    /\ xlog' = Logged(t, "write_file")
    /\ UNCHANGED <<ftRest, content, offset, file_size, rcontent, dev_files>>

\* ---- read_file
\* os.stat(path)[6] (file_transfer.py:88-105)
ReadStat(t) ==
    /\ fpc[t] = "r_stat"
    /\ LET out == IF Path(t) \in DOMAIN dev_files
                  THEN Println(Str(Len(dev_files[Path(t)])))
                  ELSE Println(ErrorText)
           text == Strip(Exchange(out, <<>>).output)
       IN  IF IsInt(text)
           THEN /\ file_size' = [file_size EXCEPT ![t] = ParseInt(text)]
                /\ fpc' = [fpc EXCEPT ![t] = IF 0 < ParseInt(text) THEN "r_chunk" ELSE "done"]
           ELSE /\ fpc' = [fpc EXCEPT ![t] = "failed"]
                /\ UNCHANGED file_size
    /\ rcontent' = [rcontent EXCEPT ![t] = <<>>]
    /\ offset' = [offset EXCEPT ![t] = 0]
    /\ xlog' = Logged(t, "read_file")
    /\ UNCHANGED <<ftRest, content, dev_files, dev_f>>

\* what f.seek(off); f.read(n) returns
FileRead(file, off, n) ==
    IF off >= Len(file) THEN <<>> ELSE SubSeq(file, off + 1, Min(off + n, Len(file)))

\* One turn of the read loop (file_transfer.py:107-126).  The program opens the
\* file as f, the device's global, and its with statement closes it.
ReadChunk(t) ==
    /\ fpc[t] = "r_chunk"
    /\ Len(xlog) < MaxLog
    /\ LET chunk_size == ChunkSize(file_size[t], offset[t])
           exists == Path(t) \in DOMAIN dev_files
           res == IF exists
                  THEN Exchange(Println(B64Encode(FileRead(dev_files[Path(t)], offset[t],
                                                           chunk_size))), <<>>)
                  ELSE Exchange(<<>>, Traceback)
           chunk == B64Decode(Strip(res.output))
       IN  /\ dev_f' = IF exists THEN "closed" ELSE dev_f
           /\ IF res.error # <<>>
              THEN /\ fpc' = [fpc EXCEPT ![t] = "failed"]
                   /\ UNCHANGED <<rcontent, offset>>
              ELSE /\ rcontent' = [rcontent EXCEPT ![t] = @ \o chunk]
                   /\ offset' = [offset EXCEPT ![t] = @ + Len(chunk)]
                   /\ fpc' = [fpc EXCEPT ![t] =
                                 IF offset[t] + Len(chunk) < file_size[t]
                                 THEN "r_chunk" ELSE "done"]
    /\ xlog' = Logged(t, "read_file")
    /\ UNCHANGED <<ftRest, content, file_size, dev_files>>

\* ---- mkdir
\* Paths are strings of characters: "/" and the letters of the names.
MaxPath == 4
PathChars == {"/", "x", "y"}
Root == <<"/">>
EEXIST == 17
ENOENT == 2
ENOTDIR == 20
mkRest == <<svars, rawVars, busVars, lspVars, ftVars, syncVars, appVars, ioVars>>

RECURSIVE NonEmpty(_)
NonEmpty(parts) ==
    IF parts = <<>> THEN <<>>
    ELSE IF Head(parts) = <<>> THEN NonEmpty(Tail(parts))
    ELSE <<Head(parts)>> \o NonEmpty(Tail(parts))
\* PurePosixPath(path).parts, of a path without "." and not starting with "//":
\* the root if the path is absolute, then the names between the slashes
Parts(path) ==
    (IF path # <<>> /\ path[1] = "/" THEN <<Root>> ELSE <<>>) \o NonEmpty(Split(path, "/"))

\* the directory a device path is in
DirName(path) ==
    LET last == CHOOSE i \in 1..Len(path) :
                    path[i] = "/" /\ \A j \in (i + 1)..Len(path) : path[j] # "/"
    IN  IF last = 1 THEN Root ELSE SubSeq(path, 1, last - 1)
\* the errno os.mkdir(path) raises on the device, 0 if it makes the directory
MkdirErrno(path) ==
    IF path \in dev_dirs \cup dev_plain \cup {Root} THEN EEXIST
    ELSE IF DirName(path) \in dev_plain THEN ENOTDIR
    ELSE IF DirName(path) \notin dev_dirs \cup {Root} THEN ENOENT
    ELSE 0
\* a program that reports EEXIST like any other error
MkdirPrintsStrict(errno) ==
    IF errno = 0 THEN Println(<<"O", "K">>) ELSE Println(ErrorText)
\* what the program prints (file_transfer.py:235-245)
MkdirPrints(errno) ==
    IF errno = 0 THEN Println(<<"O", "K">>)
    ELSE IF errno = EEXIST THEN Println(<<"E", "X", "I", "S", "T", "S">>)
    ELSE Println(ErrorText)

\* the call returns (file_transfer.py:249, 251); the second call follows
MkdirReturn(ok) ==
    /\ mk_out' = Append(mk_out, ok)
    /\ mk_call' = mk_call + 1
    /\ mk_parts' = Parts(mk_path)
    /\ current' = <<>>
    /\ mk_tree' = IF mk_call = 1 THEN dev_dirs' ELSE mk_tree

\* What RawREPL.execute returns when the exchange fails (repl.py:116-121,
\* 137-142, 155-160, 171-177): no output and an error text.
FailedExchanges ==
    {REPLResult(<<>>, <<e>>, FALSE) :
        e \in {"Failed to enter raw REPL mode", "No OK response from device",
               "Execution timeout", "str(e)"}}
\* the device has run the program of an exchange that failed: not when raw
\* mode was not entered, else it may have
MayHaveRun(r) == r.error # <<"Failed to enter raw REPL mode">>

\* One turn of mkdir's loop with a name (file_transfer.py:228-249), the root
\* parts before it and the return after the last part included.  fail is <<>>
\* when the exchange works, else <<r, ran>>: execute returns r and the device
\* has run the program or not.  The log has the errno the device reported, -1
\* for an exchange that failed.
MkdirTurn(fail) ==
    /\ mk_call \in {1, 2}
    /\ \E i \in 1..Len(mk_parts) :
          /\ mk_parts[i] # Root
          /\ \A j \in 1..(i - 1) : mk_parts[j] = Root
          /\ LET before == IF i > 1 THEN Root ELSE current
                 cur == IF before # Root THEN before \o <<"/">> \o mk_parts[i]
                                         ELSE <<"/">> \o mk_parts[i]
                 errno == MkdirErrno(cur)
                 ran == fail = <<>> \/ fail[2]
                 res == IF fail = <<>> THEN Exchange(MkdirPrints(errno), <<>>) ELSE fail[1]
             IN  /\ dev_dirs' = IF ran /\ errno = 0 THEN dev_dirs \cup {cur} ELSE dev_dirs
                 /\ mk_log' = Append(mk_log, <<mk_call, IF fail = <<>> THEN errno ELSE -1>>)
                 /\ IF Find(res.output, <<"E", "R", "R", "O", "R">>) > 0
                    THEN MkdirReturn(FALSE)
                    ELSE IF i = Len(mk_parts)
                    THEN MkdirReturn(TRUE)
                    ELSE /\ mk_parts' = Drop(mk_parts, i)
                         /\ current' = cur
                         /\ UNCHANGED <<mk_out, mk_call, mk_tree>>
    /\ UNCHANGED <<mkRest, mk_path, dev_plain>>

\* the exchange works
MkdirStep ==
    /\ mk_call \in {1, 2}
    /\ MkdirTurn(<<>>)

\* the exchange fails
MkdirFailed ==
    \E r \in FailedExchanges, ran \in BOOLEAN :
        /\ ran => MayHaveRun(r)
        /\ MkdirTurn(<<r, ran>>)

\* mkdir of a path with no name in it ("/", ""): no exchange, return True
\* (file_transfer.py:225-231, 251).
MkdirNoName ==
    /\ mk_call \in {1, 2}
    /\ \A j \in 1..Len(mk_parts) : mk_parts[j] = Root
    /\ UNCHANGED <<mkRest, mk_path, mk_log, dev_dirs, dev_plain>>
    /\ MkdirReturn(TRUE)

\* ------------------------------------------------------------ FolderSync
\* A relative path is the sequence of its names; a dict is a function.
SyncNames == {<<"a.py">>, <<"lib", "b.py">>}
SyncContents == {<<1>>, <<2>>, <<1, 1>>}
syncRest == <<svars, rawVars, busVars, lspVars, ftVars, mkVars, appVars, ioVars>>

None == [kind |-> "none", of |-> <<>>]
DifferentSize == [kind |-> "different_size", of |-> <<>>]
\* hashlib.md5(c).hexdigest(): one digest per content
Md5(c) == [kind |-> "md5", of |-> c]

\* dict.get(key), None for a missing key
Get(f, key) == IF key \in DOMAIN f THEN f[key] ELSE "None"

\* FileInfo.to_dict (file_transfer.py:28-35)
ToDict(name, path, is_dir, size) ==
    [name |-> name, path |-> path, is_dir |-> is_dir, size |-> size]

\* SerialManager.list_files(port, dir) (manager.py:200-207,
\* file_transfer.py:49-83): one dict for each entry of the remote directory
ListFiles(dir) ==
    {ToDict(q[Len(dir) + 1], SubSeq(q, 1, Len(dir) + 1), Len(q) > Len(dir) + 1,
            IF Len(q) > Len(dir) + 1 THEN 0 ELSE Len(remote[q])) :
        q \in {r \in DOMAIN remote : Len(r) > Len(dir) /\ SubSeq(r, 1, Len(dir)) = dir}}

\* _get_remote_files (sync.py:110-125): the pairs (relative path, size)
RECURSIVE RemoteFiles(_)
RemoteFiles(dir) ==
    UNION {IF Get(f, "type") = "file" THEN {<<<<f.name>>, Get(f, "size")>>}
           ELSE IF Get(f, "type") = "directory"
           THEN {<<<<f.name>> \o sub[1], sub[2]>> : sub \in RemoteFiles(dir \o <<f.name>>)}
           ELSE {} : f \in ListFiles(dir)}
AsDict(pairs) == [k \in {pr[1] : pr \in pairs} |-> (CHOOSE pr \in pairs : pr[1] = k)[2]]

\* _get_remote_hash (sync.py:127-149)
RemoteHash(name) == IF name \in DOMAIN remote THEN Md5(remote[name]) ELSE None

\* SyncFile.needs_upload (sync.py:27-34); local_hash is the md5 of the content
NeedsUpload(name) ==
    IF remote_hash[name] = None THEN TRUE
    ELSE Md5(local[name]) # remote_hash[name]

\* compare_files up to its loop (sync.py:185-189)
SyncGetRemote ==
    /\ spc = "start"
    /\ remote_files' = AsDict(RemoteFiles(<<>>))
    /\ todo' = sync_order
    /\ spc' = IF sync_order = <<>> THEN "compared" ELSE "compare"
    /\ UNCHANGED <<syncRest, local, remote, sync_order, remote_hash, uploaded, skipped>>

\* One turn of compare_files' loop (sync.py:192-210)
SyncCompare ==
    /\ spc = "compare"
    /\ LET file == Head(todo)
       IN  remote_hash' = [remote_hash EXCEPT ![file] =
               IF file \in DOMAIN remote_files
               THEN IF remote_files[file] # Len(local[file])
                    THEN DifferentSize
                    ELSE RemoteHash(file)
               ELSE None]
    /\ todo' = Tail(todo)
    /\ spc' = IF Tail(todo) = <<>> THEN "compared" ELSE "compare"
    /\ UNCHANGED <<syncRest, local, remote, remote_files, sync_order, uploaded, skipped>>

\* compare_files returns to sync_folder (sync.py:212, 229-232)
SyncBegin ==
    /\ spc = "compared"
    /\ todo' = sync_order
    /\ spc' = IF sync_order = <<>> THEN "done" ELSE "sync"
    /\ UNCHANGED <<syncRest, local, remote, remote_files, sync_order, remote_hash, uploaded,
                   skipped>>

\* One turn of sync_folder's loop (sync.py:234-266), the upload succeeding
SyncUpload ==
    /\ spc = "sync"
    /\ LET file == Head(todo)
       IN  IF ~NeedsUpload(file)
           THEN /\ skipped' = Append(skipped, file)
                /\ UNCHANGED <<uploaded, remote>>
           ELSE /\ remote' = [q \in DOMAIN remote \cup {file} |->
                                 IF q = file THEN local[file] ELSE remote[q]]
                /\ uploaded' = Append(uploaded, file)
                /\ UNCHANGED skipped
    /\ todo' = Tail(todo)
    /\ spc' = IF Tail(todo) = <<>> THEN "done" ELSE "sync"
    /\ UNCHANGED <<syncRest, local, remote_files, sync_order, remote_hash>>

\* ------------------------------------------------------------ Application
\* _async_shutdown (app.py:56-74) and the stop methods it awaits, one action
\* for each await.  While the HTTP server is up, clients open and close
\* WebSockets, start the language server and connect devices.
appRest == <<svars, rawVars, ftVars, mkVars, syncVars, ioVars>>
appOnly == <<svars, rawVars, busVars, lspVars, ftVars, mkVars, syncVars, ioVars>>
busOther == <<queue, emitted, bpc, event, hlog, subscriptions, sendlist, wslog,
              unsubscribed>>
busRestOf == <<queue, emitted, bpc, event, hlog, sendlist, wslog, unsubscribed>>
lspOther == <<spawned, ipc, request_id, resolved, rid, rstate, got, issued, unanswered,
              srv_msgs>>
ServerUp == app_pc \in {"running", "ws_lsp", "ws_close", "cleanup"}
\* WebSocketHandler._lsp_manager is set (websocket.py:186-198)
WsManagerExists == \E i \in InitTasks : Owner(i) = "ws" /\ ipc[i] # "idle"

\* EventBus.emit by the application (events.py:130-158)
Publish(k, src) ==
    LET e == [type |-> k, source |-> src, data |-> Len(emitted) + 1]
    IN  /\ queue' = Append(queue, e)
        /\ emitted' = Append(emitted, e)
appQuiet == <<svars, rawVars, lspVars, ftVars, mkVars, syncVars, ioVars, bpc, event, hlog,
              connections, subscriptions, sendlist, wslog, unsubscribed>>

\* SerialManager.connect succeeds for a port and emits DEVICE_CONNECTED
\* (manager.py:94-95, 110-118)
AppRegister(p) ==
    /\ ServerUp
    /\ p \notin registered
    /\ registered' = registered \cup {p}
    /\ Publish("DEVICE_CONNECTED", p)
    /\ UNCHANGED <<appQuiet, app_pc, stages, sh_todo, ws_subscribed, monitoring, dispatching>>

\* _async_shutdown starts: APP_SHUTDOWN is emitted, APIServer.stop calls
\* WebSocketHandler.stop, which unsubscribes (app.py:60-64, api.py:193,
\* websocket.py:47-48).
AppShutdown ==
    /\ app_pc = "running"
    /\ Publish("APP_SHUTDOWN", "")
    /\ ws_subscribed' = FALSE
    /\ app_pc' = "ws_lsp"
    /\ UNCHANGED <<appQuiet, stages, sh_todo, monitoring, registered, dispatching>>

\* WebSocketHandler.stop shuts its language server down (websocket.py:50-54,
\* manager.py:153-191); APIServer's own manager is not touched.
AppStopLsp ==
    /\ app_pc = "ws_lsp"
    /\ IF WsManagerExists
       THEN /\ children' = children \ {process["ws"]}
            /\ process' = [process EXCEPT !["ws"] = 0]
            /\ initialized' = [initialized EXCEPT !["ws"] = FALSE]
            /\ lsp_read_task' = "none"
            /\ pending_requests' = {}
            /\ sd' = "done"
            /\ stages' = Append(stages, "lsp")
       ELSE UNCHANGED <<children, process, lifeVars, pending_requests, sd, stages>>
    /\ sh_todo' = connections
    /\ app_pc' = "ws_close"
    /\ UNCHANGED <<appRest, busVars, lspOther, ws_subscribed, monitoring, registered,
                   dispatching>>

\* One turn of the loop over list(self._connections) (websocket.py:57-61).
AppCloseWs ==
    /\ app_pc = "ws_close"
    /\ \E c \in sh_todo :
          /\ sh_todo' = sh_todo \ {c}
          /\ connections' = connections \ {c}
          /\ subscriptions' = [subscriptions EXCEPT ![c] = {}]
    /\ UNCHANGED <<appRest, lspVars, busRestOf, app_pc, stages, ws_subscribed, monitoring,
                   registered, dispatching>>

\* The loop is over; APIServer.stop goes on to runner.cleanup (api.py:195-196).
AppWsStopped ==
    /\ app_pc = "ws_close"
    /\ sh_todo = {}
    /\ stages' = Append(stages, "websockets")
    /\ app_pc' = "cleanup"
    /\ UNCHANGED <<appOnly, sh_todo, ws_subscribed, monitoring, registered, dispatching>>

\* runner.cleanup returns: the server is down (api.py:195-198); what is left
\* of the WebSockets goes with it.  SerialManager.stop is next (app.py:66-67).
AppCleanup ==
    /\ app_pc = "cleanup"
    /\ connections' = {}
    /\ app_pc' = "watcher"
    /\ UNCHANGED <<appRest, lspVars, busOther, stages, sh_todo, ws_subscribed, monitoring,
                   registered, dispatching>>

\* stop_monitoring (manager.py:46, discovery.py:106-115)
AppStopMonitoring ==
    /\ app_pc = "watcher"
    /\ monitoring' = FALSE
    /\ stages' = Append(stages, "watcher")
    /\ sh_todo' = registered
    /\ app_pc' = "sessions"
    /\ UNCHANGED <<appOnly, ws_subscribed, registered, dispatching>>

\* One turn of the loop over list(self._devices.keys()) (manager.py:49-50):
\* SerialManager.disconnect emits DEVICE_DISCONNECTED (manager.py:127-137).
AppDisconnect ==
    /\ app_pc = "sessions"
    /\ \E p \in sh_todo :
          /\ sh_todo' = sh_todo \ {p}
          /\ registered' = registered \ {p}
          /\ Publish("DEVICE_DISCONNECTED", p)
    /\ UNCHANGED <<appQuiet, app_pc, stages, ws_subscribed, monitoring, dispatching>>

\* SerialManager.stop returns (manager.py:52); EventBus.stop is next (app.py:69).
AppSessionsClosed ==
    /\ app_pc = "sessions"
    /\ sh_todo = {}
    /\ stages' = Append(stages, "sessions")
    /\ app_pc' = "events"
    /\ UNCHANGED <<appOnly, sh_todo, ws_subscribed, monitoring, registered, dispatching>>

\* EventBus.stop cancels the dispatcher task and waits for it (events.py:169-178).
AppStopEvents ==
    /\ app_pc = "events"
    /\ dispatching' = FALSE
    /\ stages' = Append(stages, "dispatcher")
    /\ app_pc' = "done"
    /\ UNCHANGED <<appOnly, sh_todo, ws_subscribed, monitoring, registered>>

\* ------------------------------------------------------------ the serial link
\* What reaches the serial link, write by write.  Device.write takes
\* Device._lock, hands the bytes to the transport and awaits drain
\* (device.py:147-149).  StreamWriter.drain returns without suspending unless
\* the transport has paused the protocol (its buffer is over the high-water
\* mark), so a task that writes runs on to its next write; when drain
\* suspends, the lock stays held until the transport has drained.  "x" is an
\* execute (alone on its codec mutex), "i" SerialManager.interrupt, "k" a
\* repl:input message of a WebSocket client and "r" SerialManager.reset.  The
\* session stays connected.  wpc[t].at is the stage t has reached and wpc[t].ph
\* what it waits for: "rl" the read lock, "lock" Device._lock, "drain" the
\* transport, "run" anything else (a sleep, a read, the reader task's end).
WireTasks == {"x", "i", "k", "r"}
CTRL_A == 1
CTRL_B == 2
CTRL_C == 3
CTRL_D == 4
CR == 13
LF == 10
\* "print('x')".encode("utf-8")
Source == <<112, 114, 105, 110, 116, 40, 39, 120, 39, 41>>
\* the text of the repl:input message, "x"
InputText == <<120>>
\* "import machine; machine.reset()"
HardResetText == <<105, 109, 112, 111, 114, 116, 32, 109, 97, 99, 104, 105, 110, 101,
                   59, 32, 109, 97, 99, 104, 105, 110, 101, 46, 114, 101, 115, 101,
                   116, 40, 41>>

wireRest == <<svars, rawVars, busVars, lspVars, ftVars, mkVars, syncVars, appVars, unVars,
             boardVars, resVars, dispVars>>

\* Device.write_line (device.py:151-153)
Line(text) == text \o <<CR, LF>>
\* Device.interrupt (device.py:228-230)
InterruptLine == Line(<<CTRL_C>>)
InterruptData == <<CTRL_C>>
\* Device.reset (device.py:232-239)
DeviceReset(soft) == IF soft THEN <<CTRL_D>> ELSE Line(HardResetText)

Stage(t) == wpc[t].at
Waits(t) == wpc[t].ph
Ready(t, at) == wpc[t] = [at |-> at, ph |-> "run"]
Goes(t, at, ph) == wpc' = [wpc EXCEPT ![t] = [at |-> at, ph |-> ph]]

\* the transport takes the first n writes of b
Written(t, b, n) == tx \o [k \in 1..n |-> [by |-> t, data |-> b[k]]]
Rest(b, n) == SubSeq(b, n + 1, Len(b))

\* Task t has got Device._lock and W are the tasks waiting for it; t is to
\* write b and go on to stage at.  It writes until a drain suspends (the lock
\* stays held) or b is done; a write whose drain does not suspend ends with
\* the lock released, and with tasks waiting t has to queue for its next write.
BurstFrom(t, at, b, W) ==
    \E n \in 1..Len(b), suspend \in BOOLEAN :
        /\ suspend \/ n = Len(b) \/ W # <<>>
        /\ W # <<>> => n = 1
        /\ tx' = Written(t, b, n)
        /\ IF suspend
           THEN /\ w_lock' = [locked |-> TRUE, waiters |-> W]
                /\ burst' = [burst EXCEPT ![t] = Rest(b, n)]
                /\ Goes(t, at, "drain")
           ELSE IF n = Len(b)
           THEN /\ w_lock' = [locked |-> FALSE, waiters |-> W]
                /\ burst' = [burst EXCEPT ![t] = <<>>]
                /\ Goes(t, at, "run")
           ELSE /\ w_lock' = [locked |-> FALSE, waiters |-> Append(W, t)]
                /\ burst' = [burst EXCEPT ![t] = Rest(b, n)]
                /\ Goes(t, at, "lock")

\* Device.write called for the first write of b (device.py:142-149)
CallWrite(t, at, b) ==
    IF CanTake(w_lock)
    THEN BurstFrom(t, at, b, <<>>)
    ELSE /\ w_lock' = Enqueue(w_lock, t)
         /\ burst' = [burst EXCEPT ![t] = b]
         /\ Goes(t, at, "lock")
         /\ UNCHANGED tx

\* A task waiting for Device._lock gets it.
WriteGranted(t) ==
    /\ Waits(t) = "lock"
    /\ Woken(w_lock, t)
    /\ BurstFrom(t, Stage(t), burst[t], Without(w_lock.waiters, t))
    /\ UNCHANGED <<w_read_lock, w_in_raw_mode, w_soft>>
    /\ UNCHANGED wireRest

\* The transport has drained: drain returns, the lock is released and the
\* task goes on, to its next write if it has one.
Drained(t) ==
    /\ Waits(t) = "drain"
    /\ IF burst[t] = <<>>
       THEN /\ w_lock' = Release(w_lock)
            /\ Goes(t, Stage(t), "run")
            /\ UNCHANGED <<burst, tx>>
       ELSE IF w_lock.waiters # <<>>
       THEN /\ w_lock' = Enqueue(Release(w_lock), t)
            /\ Goes(t, Stage(t), "lock")
            /\ UNCHANGED <<burst, tx>>
       ELSE BurstFrom(t, Stage(t), burst[t], <<>>)
    /\ UNCHANGED <<w_read_lock, w_in_raw_mode, w_soft>>
    /\ UNCHANGED wireRest

\* Device.pause_read_loop (device.py:155-166), the reader task left out
WPause(t, L, at) ==
    IF CanTake(L)
    THEN w_read_lock' = Take(L) /\ Goes(t, at, "run")
    ELSE w_read_lock' = Enqueue(L, t) /\ Goes(t, at, "rl")

WReadLockGranted(t) ==
    /\ Waits(t) = "rl"
    /\ Woken(w_read_lock, t)
    /\ w_read_lock' = Grant(w_read_lock, t)
    /\ Goes(t, Stage(t), "run")
    /\ UNCHANGED <<burst, tx, w_lock, w_in_raw_mode, w_soft>>
    /\ UNCHANGED wireRest

\* RawREPL.execute up to its first pause_read_loop (repl.py:113-123, 53-56)
WExecStart ==
    /\ Ready("x", "idle")
    /\ WPause("x", w_read_lock, IF w_in_raw_mode THEN "paused" ELSE "entering")
    /\ UNCHANGED <<burst, tx, w_lock, w_in_raw_mode, w_soft>>
    /\ UNCHANGED wireRest

\* enter_raw_mode writes Ctrl-C (repl.py:59)
WEnterInterrupt ==
    /\ Ready("x", "entering")
    /\ CallWrite("x", "erm_c", <<<<CTRL_C>>>>)
    /\ UNCHANGED <<w_read_lock, w_in_raw_mode, w_soft>>
    /\ UNCHANGED wireRest

\* enter_raw_mode writes Ctrl-A (repl.py:60-66)
WEnterRaw ==
    /\ Ready("x", "erm_c")
    /\ CallWrite("x", "erm_a", <<<<CTRL_A>>>>)
    /\ UNCHANGED <<w_read_lock, w_in_raw_mode, w_soft>>
    /\ UNCHANGED wireRest

\* enter_raw_mode sees the prompt or not (repl.py:67-83); when it does, execute
\* goes on to its own pause_read_loop (repl.py:123).
WEnterPrompt ==
    /\ Ready("x", "erm_a")
    /\ \E seen \in BOOLEAN :
         IF seen
         THEN /\ w_in_raw_mode' = TRUE
              /\ WPause("x", Release(w_read_lock), "paused")
         ELSE /\ w_read_lock' = Release(w_read_lock)
              /\ Goes("x", "done", "run")
              /\ UNCHANGED w_in_raw_mode
    /\ UNCHANGED <<burst, tx, w_lock, w_soft>>
    /\ UNCHANGED wireRest

\* execute clears the buffer and writes the source, then Ctrl-D
\* (repl.py:126-133)
WExecSubmit ==
    /\ Ready("x", "paused")
    /\ CallWrite("x", "submitted", <<Source, <<CTRL_D>>>>)
    /\ UNCHANGED <<w_read_lock, w_in_raw_mode, w_soft>>
    /\ UNCHANGED wireRest

\* execute has its answer or a timeout and returns (repl.py:136-179)
WExecReturn ==
    /\ Ready("x", "submitted")
    /\ w_read_lock' = Release(w_read_lock)
    /\ Goes("x", "done", "run")
    /\ UNCHANGED <<burst, tx, w_lock, w_in_raw_mode, w_soft>>
    /\ UNCHANGED wireRest

\* SerialManager.interrupt (manager.py:156-161) and Device.interrupt
WInterrupt ==
    /\ Ready("i", "idle")
    /\ CallWrite("i", "sent", <<InterruptData>>)
    /\ UNCHANGED <<w_read_lock, w_in_raw_mode, w_soft>>
    /\ UNCHANGED wireRest

\* a repl:input message (websocket.py:117-124)
WReplInput ==
    /\ Ready("k", "idle")
    /\ CallWrite("k", "sent", <<Line(InputText)>>)
    /\ UNCHANGED <<w_read_lock, w_in_raw_mode, w_soft>>
    /\ UNCHANGED wireRest

\* SerialManager.reset(port, soft) (manager.py:178-183) and soft_reset's
\* pause_read_loop (repl.py:261)
WReset ==
    /\ Ready("r", "idle")
    /\ WPause("r", w_read_lock, "paused")
    /\ UNCHANGED <<burst, tx, w_lock, w_in_raw_mode, w_soft>>
    /\ UNCHANGED wireRest

\* soft_reset: exit_raw_mode's Ctrl-B when in raw mode, else Ctrl-D
\* (repl.py:264-268, 87-91)
WResetGo ==
    /\ Ready("r", "paused")
    /\ IF w_in_raw_mode
       THEN CallWrite("r", "exiting", <<<<CTRL_B>>>>)
       ELSE CallWrite("r", "booting", <<<<CTRL_D>>>>)
    /\ UNCHANGED <<w_read_lock, w_in_raw_mode, w_soft>>
    /\ UNCHANGED wireRest

\* exit_raw_mode after its sleep (repl.py:92-93), then Ctrl-D (repl.py:268)
WResetExited ==
    /\ Ready("r", "exiting")
    /\ w_in_raw_mode' = FALSE
    /\ CallWrite("r", "booting", <<<<CTRL_D>>>>)
    /\ UNCHANGED <<w_read_lock, w_soft>>
    /\ UNCHANGED wireRest

\* soft_reset has read the boot banner or timed out (repl.py:269-279)
WResetReturn ==
    /\ Ready("r", "booting")
    /\ w_read_lock' = Release(w_read_lock)
    /\ Goes("r", "done", "run")
    /\ UNCHANGED <<burst, tx, w_lock, w_in_raw_mode, w_soft>>
    /\ UNCHANGED wireRest

\* ------------------------------------------------------------ LibManager.uninstall_package
\* uninstall_package(port, "n") (lib_manager.py:953-995).  delete_file is
\* SerialManager.delete_file (manager.py:239-254) over FileTransfer.delete_file
\* (file_transfer.py:187-198): one execute of os.remove, which removes a plain
\* file and fails on a directory or a missing path.  RawREPL.execute catches
\* what goes wrong in the exchange and returns a result, so delete_file
\* returns True or False and raises nothing.
unRest == <<svars, rawVars, busVars, lspVars, ftVars, mkVars, syncVars, appVars, wireVars,
           boardVars, resVars, dispVars>>
\* paths_to_try (lib_manager.py:963-967)
PathsToTry == <<"/lib/n.py", "/lib/n", "/n.py">>
Kinds3 == {"absent", "file", "dir"}

\* os.remove(path) on the device prints OK
Removes(path) == un_fs[path] = "file"

\* uninstall_package calls delete_file for the path it is at
\* (lib_manager.py:969-971); without a session for the port delete_file
\* returns False at once (manager.py:241-243) and uninstall_package goes on
\* to report (lib_manager.py:972-978).
UnCall(k) ==
    /\ un_tried' = Append(un_tried, PathsToTry[k])
    /\ IF un_ft
       THEN /\ un_pc' = "deleting"
            /\ UNCHANGED un_result
       ELSE /\ un_pc' = "returned"
            /\ un_result' = TRUE
    /\ UNCHANGED <<un_fs, un_ft, un_deleted>>

UninstallPackage ==
    /\ un_pc = "idle"
    /\ UnCall(1)
    /\ UNCHANGED unRest

\* The execute of delete_file returns: with the device's answer, or with a
\* failure of the exchange (output "").  delete_file returns "OK" in output;
\* uninstall_package does not look at it, sets the progress to complete and
\* returns True (lib_manager.py:971-978).
UnDeleted ==
    /\ un_pc = "deleting"
    /\ \E answered \in BOOLEAN :
         LET path == un_tried[Len(un_tried)]
             ok == answered /\ Removes(path)
         IN /\ un_fs' = IF ok THEN [un_fs EXCEPT ![path] = "absent"] ELSE un_fs
            /\ un_deleted' = IF ok THEN Append(un_deleted, path) ELSE un_deleted
    /\ un_pc' = "returned"
    /\ un_result' = TRUE
    /\ UNCHANGED <<un_ft, un_tried>>
    /\ UNCHANGED unRest

\* ------------------------------------------------------------ a board behind the codec
\* Successive RawREPL.execute calls of one session (the codec mutex lets one
\* run at a time) against a MicroPython board.  The board takes what the host
\* wrote in order, one item at a time, when it is not busy: in raw mode a
\* submission is answered with OK, the program's output, 0x04, 0x04, '>'; at
\* the friendly prompt its text is echoed and the 0x04 after it does nothing.
\* The program of submission n prints the digit n.  Bytes are one-character
\* strings as above and a banner is a one-element text.
MaxOps == 3
boardRest == <<svars, rawVars, busVars, lspVars, ftVars, mkVars, syncVars, appVars,
               wireVars, unVars, resVars, dispVars>>
Ctl(c) == [k |-> "ctl", n |-> c]
Src(n) == [k |-> "src", n |-> n]
Out(n) == <<Digits[n + 1]>>
RawBanner == <<"raw REPL; CTRL-B to exit", ">">>
Prompt == <<">", ">", ">">>
BootBanner == <<"MicroPython">> \o Prompt
Echo == <<"p">>
HEnterFailed == REPLResult(<<>>, <<"Failed to enter raw REPL mode">>, FALSE)

\* what the board sends for an item it takes, and the mode it is in then
BoardAnswer(tok, mode) ==
    IF mode = "raw"
    THEN IF tok.k = "src" THEN Reply(Out(tok.n), <<>>)
         ELSE IF tok.n = CTRL_A THEN RawBanner
         ELSE <<>>
    ELSE IF tok.k = "src" THEN Echo
         ELSE IF tok.n = CTRL_A THEN RawBanner
         ELSE Prompt
BoardMode(tok, mode) == IF tok = Ctl(CTRL_A) THEN "raw" ELSE mode

BoardTakes ==
    /\ b_run = <<>>
    /\ b_in # <<>>
    /\ b_run' = BoardAnswer(Head(b_in), b_mode)
    /\ b_mode' = BoardMode(Head(b_in), b_mode)
    /\ b_in' = Tail(b_in)
    /\ UNCHANGED <<h_pc, h_n, h_in_raw_mode, h_entered, h_data, h_results, b_rx, b_was_reset>>
    /\ UNCHANGED boardRest

\* The board sends the next bytes, in chunks of any size.
BoardEmit ==
    /\ b_run # <<>>
    /\ \E k \in 1..Len(b_run) :
          /\ b_rx' = b_rx \o SubSeq(b_run, 1, k)
          /\ b_run' = Drop(b_run, k)
    /\ UNCHANGED <<h_pc, h_n, h_in_raw_mode, h_entered, h_data, h_results, b_mode, b_in,
                   b_was_reset>>
    /\ UNCHANGED boardRest

\* The reset button: the board drops what it was doing and boots into the
\* friendly REPL.  The serial link stays open.
BoardHardReset ==
    /\ ~b_was_reset
    /\ b_was_reset' = TRUE
    /\ b_mode' = "friendly"
    /\ b_in' = <<>>
    /\ b_run' = BootBanner
    /\ UNCHANGED <<h_pc, h_n, h_in_raw_mode, h_entered, h_data, h_results, b_rx>>
    /\ UNCHANGED boardRest

\* execute returns res (repl.py:117-121, 138-142, 156-160, 165-169)
HReturn(res) ==
    /\ h_results' = Append(h_results, res)
    /\ h_pc' = "idle"

\* execute is called (repl.py:113-116); not in raw mode, enter_raw_mode
\* writes Ctrl-C (repl.py:56-59)
HExecute ==
    /\ h_pc = "idle"
    /\ h_n < MaxOps
    /\ h_n' = h_n + 1
    /\ h_entered' = FALSE
    /\ IF h_in_raw_mode
       THEN h_pc' = "clear" /\ UNCHANGED b_in
       ELSE h_pc' = "erm_c" /\ b_in' = Append(b_in, Ctl(CTRL_C))
    /\ UNCHANGED <<h_in_raw_mode, h_data, h_results, b_rx, b_mode, b_run, b_was_reset>>
    /\ UNCHANGED boardRest

\* enter_raw_mode clears the buffer and writes Ctrl-A (repl.py:60-66)
HEnterRaw ==
    /\ h_pc = "erm_c"
    /\ b_rx' = <<>>
    /\ b_in' = Append(b_in, Ctl(CTRL_A))
    /\ h_pc' = "erm_a"
    /\ UNCHANGED <<h_n, h_in_raw_mode, h_entered, h_data, h_results, b_mode, b_run,
                   b_was_reset>>
    /\ UNCHANGED boardRest

\* enter_raw_mode reads the answer (repl.py:67-77)
HEnterPrompt ==
    /\ h_pc = "erm_a"
    /\ b_rx' = <<>>
    /\ IF Find(b_rx, <<RawBanner[1]>>) > 0 \/ Find(b_rx, <<">">>) > 0
       THEN /\ h_in_raw_mode' = TRUE
            /\ h_entered' = TRUE
            /\ h_pc' = "clear"
            /\ UNCHANGED h_results
       ELSE /\ HReturn(HEnterFailed)
            /\ UNCHANGED <<h_in_raw_mode, h_entered>>
    /\ UNCHANGED <<h_n, h_data, b_mode, b_in, b_run, b_was_reset>>
    /\ UNCHANGED boardRest

\* execute clears pending data with one read of up to ReadSize bytes and
\* writes the source and 0x04 (repl.py:126-133)
HSubmit ==
    /\ h_pc = "clear"
    /\ b_rx' = Drop(b_rx, Min(Len(b_rx), ReadSize))
    /\ b_in' = Append(b_in, Src(h_n))
    /\ h_pc' = "wait_ok"
    /\ UNCHANGED <<h_n, h_in_raw_mode, h_entered, h_data, h_results, b_mode, b_run,
                   b_was_reset>>
    /\ UNCHANGED boardRest

\* read_until(b"OK") returns (repl.py:136)
HWaitOk ==
    /\ h_pc = "wait_ok"
    /\ Find(b_rx, OK) > 0
    /\ b_rx' = Drop(b_rx, Find(b_rx, OK) + 1)
    /\ h_data' = <<>>
    /\ h_pc' = "resp"
    /\ UNCHANGED <<h_n, h_in_raw_mode, h_entered, h_results, b_mode, b_in, b_run,
                   b_was_reset>>
    /\ UNCHANGED boardRest

\* read_until times out (repl.py:137-142); the flag _in_raw_mode is left as
\* it is
HNoOk ==
    /\ h_pc = "wait_ok"
    /\ Find(b_rx, OK) = 0
    /\ HReturn(RawNoOk)
    /\ UNCHANGED <<h_n, h_in_raw_mode, h_entered, h_data, b_rx, b_mode, b_in, b_run,
                   b_was_reset>>
    /\ UNCHANGED boardRest

\* one turn of _read_raw_response's loop with a chunk (repl.py:191-207, 162-169)
HRead ==
    /\ h_pc = "resp"
    /\ b_rx # <<>>
    /\ LET n == Min(Len(b_rx), ReadSize)
           d == h_data \o SubSeq(b_rx, 1, n)
       IN  /\ b_rx' = Drop(b_rx, n)
           /\ h_data' = d
           /\ IF EndsWith(d, EndMarker)
              THEN HReturn(RawAnswer(ParseResponse(d)))
              ELSE UNCHANGED <<h_results, h_pc>>
    /\ UNCHANGED <<h_n, h_in_raw_mode, h_entered, b_mode, b_in, b_run, b_was_reset>>
    /\ UNCHANGED boardRest

\* wait_for(_read_raw_response(), timeout) expires (repl.py:149-160); the flag
\* _in_raw_mode is left as it is
HTimeout ==
    /\ h_pc = "resp"
    /\ HReturn(RawTimeout)
    /\ UNCHANGED <<h_n, h_in_raw_mode, h_entered, h_data, b_rx, b_mode, b_in, b_run,
                   b_was_reset>>
    /\ UNCHANGED boardRest

\* ------------------------------------------------------------ the result of one call
\* One call of SerialManager.execute, RawREPL.execute or
\* RawREPL.execute_friendly, against every circumstance its code tells apart.
MaxData == 5
resRest == <<svars, rawVars, busVars, lspVars, ftVars, mkVars, syncVars, appVars,
             wireVars, unVars, boardVars, dispVars>>

\* An exception is its type and its args; str(e) (repl.py:175, 253) is the
\* empty string without args and the message with one.
StrOf(e) == IF e.args = <<>> THEN <<>> ELSE <<e.args[1]>>

\* What the operations inside the two try blocks raise: Device.read and
\* Device.write without a stream (device.py:145, 181), StreamWriter.drain on
\* a lost connection, StreamReader.readuntil past its limit, the stream's
\* stored SerialException, str.encode of a lone surrogate (repl.py:129).
\* TimeoutError, whose str is empty, is caught where it is raised
\* (device.py:194, 220, repl.py:155).
Exceptions ==
    { [type |-> "RuntimeError", args |-> <<"Device not connected">>],
      [type |-> "ConnectionResetError", args |-> <<"Connection lost">>],
      [type |-> "LimitOverrunError",
       args |-> <<"Separator is not found, and chunk exceed the limit">>],
      [type |-> "SerialException", args |-> <<"read failed">>],
      [type |-> "UnicodeEncodeError", args |-> <<"surrogates not allowed">>] }

\* what _read_raw_response has collected after OK: any bytes
RawDatas == UNION {[1..n -> Alphabet \cup {EOT}] : n \in 0..MaxData}
\* what execute_friendly reads back, in pieces: the two words its test looks
\* for (repl.py:240) and other characters
FriendlyTexts == UNION {[1..n -> {"a", "Traceback", "Error"}] : n \in 0..MaxText}

Envs ==
    [connected : BOOLEAN,              \* SerialManager._repls has the port
     in_raw : BOOLEAN,                 \* RawREPL._in_raw_mode at the call
     enters : BOOLEAN,                 \* enter_raw_mode gets its prompt
     ok : BOOLEAN,                     \* read_until finds OK within 2 s
     raises : {<<>>} \cup {<<e>> : e \in Exceptions},
     data : RawDatas \cup FriendlyTexts]

RawNotConnected == REPLResult(<<>>, <<"Device not connected: ", "COM3">>, FALSE)
Caught(e) == REPLResult(<<>>, StrOf(e), FALSE)
\* repl.py:236-248
FriendlyResult(text) ==
    LET error == IF Find(text, <<"Traceback">>) > 0 \/ Find(text, <<"Error">>) > 0
                 THEN text ELSE <<>>
    IN  REPLResult(IF error # <<>> THEN <<>> ELSE text, error, error = <<>>)

Returns(res) ==
    /\ r_result = <<>>
    /\ r_result' = <<res>>
    /\ UNCHANGED <<r_entry, r_env, resRest>>

\* the call reaches RawREPL.execute (manager.py:154)
InExecute == r_entry = "execute" \/ (r_entry = "manager" /\ r_env.connected)
\* ... and its try block (repl.py:115-124)
InTry == InExecute /\ (r_env.in_raw \/ r_env.enters)

\* manager.py:146-152
RNotConnected == r_entry = "manager" /\ ~r_env.connected /\ Returns(RawNotConnected)
\* repl.py:115-121
REnterFailed == InExecute /\ ~r_env.in_raw /\ ~r_env.enters /\ Returns(HEnterFailed)
\* repl.py:136-142
RNoOk == InTry /\ r_env.raises = <<>> /\ ~r_env.ok /\ Returns(RawNoOk)
\* repl.py:148-160: the loop of _read_raw_response ends only on data that ends
\* with the marker (repl.py:198); on any other data wait_for times out
RTimeout ==
    /\ InTry /\ r_env.raises = <<>> /\ r_env.ok
    /\ ~EndsWith(r_env.data, EndMarker)
    /\ Returns(RawTimeout)
\* repl.py:162-169
RAnswer ==
    /\ InTry /\ r_env.raises = <<>> /\ r_env.ok
    /\ EndsWith(r_env.data, EndMarker)
    /\ Returns(RawAnswer(ParseResponse(r_env.data)))
\* repl.py:171-177 and 250-255
RCaught ==
    /\ (InTry \/ r_entry = "friendly")
    /\ r_env.raises # <<>>
    /\ Returns(Caught(r_env.raises[1]))
\* repl.py:215-248
RFriendly ==
    /\ r_entry = "friendly" /\ r_env.raises = <<>>
    /\ r_env.data \in FriendlyTexts
    /\ Returns(FriendlyResult(r_env.data))

\* ------------------------------------------------------------ handlers that raise
\* The dispatcher with any handlers subscribed, in any order, each of which
\* may be one that raises when it is called.
DTypes == {"DEVICE_OUTPUT", "DEVICE_CONNECTED"}
KindHandlers == {"h1", "h2"}
GlobalHandlers == {"g1", "g2"}
dispRest == <<svars, rawVars, busVars, lspVars, ftVars, mkVars, syncVars, appVars,
              wireVars, unVars, boardVars, resVars>>

\* the lists subscribe can build from a set of handlers (events.py:101-108)
Registrations(S) ==
    {s \in UNION {[1..n -> S] : n \in 0..Cardinality(S)} :
         \A i, j \in 1..Len(s) : i # j => s[i] # s[j]}

\* EventBus.emit (events.py:130-158)
DEmit(t) ==
    /\ Len(d_done) + Len(d_queue) + (IF d_phase = "get" THEN 0 ELSE 1) < MaxEvents
    /\ d_queue' = Append(d_queue,
                         [type |-> t,
                          data |-> Len(d_done) + Len(d_queue)
                                   + (IF d_phase = "get" THEN 1 ELSE 2)])
    /\ UNCHANGED <<dispRest, d_handlers, d_global, d_raises, d_phase, d_i, d_event, d_calls, d_done>>

\* _process_events takes the next event and turns to the handlers of its
\* type (events.py:182-194).
DTake ==
    /\ d_phase = "get"
    /\ d_queue # <<>>
    /\ d_event' = Head(d_queue)
    /\ d_queue' = Tail(d_queue)
    /\ d_phase' = "kind"
    /\ d_i' = 1
    /\ UNCHANGED <<dispRest, d_handlers, d_global, d_raises, d_calls, d_done>>

\* the list the dispatcher is going through
HandlerList == IF d_phase = "kind" THEN d_handlers[d_event.type] ELSE d_global

\* a dispatcher whose loop is left by the first exception
AfterHandlerAbort(i, n, raised) == IF raised THEN n + 1 ELSE i + 1
\* try/except Exception inside the loop (events.py:195-199, 202-206): the
\* next handler is next, whether this one raised or not
AfterHandler(i, n, raised) == i + 1

\* One handler is awaited; it returns or raises (events.py:195-199, 202-206).
DCall ==
    /\ d_phase \in {"kind", "global"}
    /\ d_i <= Len(HandlerList)
    /\ LET raised == HandlerList[d_i] \in d_raises
       IN  /\ d_calls' = Append(d_calls,
                                [h |-> HandlerList[d_i], e |-> d_event.data,
                                 raised |-> raised])
           /\ d_i' = AfterHandler(d_i, Len(HandlerList), raised)
    /\ UNCHANGED <<dispRest, d_handlers, d_global, d_raises, d_queue, d_phase, d_event, d_done>>

\* The loop over the type's handlers is over: the global handlers are next
\* (events.py:201-202).
DGlobal ==
    /\ d_phase = "kind"
    /\ d_i > Len(HandlerList)
    /\ d_phase' = "global"
    /\ d_i' = 1
    /\ UNCHANGED <<dispRest, d_handlers, d_global, d_raises, d_queue, d_event, d_calls, d_done>>

\* The loop over the global handlers is over: back to the queue.
DDone ==
    /\ d_phase = "global"
    /\ d_i > Len(HandlerList)
    /\ d_phase' = "get"
    /\ d_done' = Append(d_done, d_event)
    /\ UNCHANGED <<dispRest, d_handlers, d_global, d_raises, d_queue, d_i, d_event, d_calls>>

\* ------------------------------------------------------------ specifications
SessionInit ==
    /\ pc = [t \in Tasks |-> "idle"]
    /\ result = [t \in Execs |-> Pending]
    /\ state = "DISCONNECTED"
    /\ reader = FALSE
    /\ writer = FALSE
    /\ link = "none"
    /\ rxData = FALSE
    /\ read_task = "none"
    /\ orphans = 0
    /\ read_loop_stopped = FALSE
    /\ read_lock = FreeLock
    /\ rl_holder = "none"
    /\ ring = 0
    /\ ring_in_exec = FALSE
    /\ in_raw_mode = FALSE
    /\ repl_lock = FreeLock
    /\ mx_holder = "none"
    /\ mx_order = <<>>
    /\ mx_grants = <<>>
    /\ devices = FALSE
    /\ port_present = TRUE
    /\ known_ports = TRUE
    /\ n_disconnected = 0
    /\ n_connected = 0
    /\ n_error = 0

\* no reply under way
RawIdle ==
    /\ stdout = <<>> /\ stderr = <<>>
    /\ wire = <<>> /\ sent = <<>> /\ buf = <<>> /\ data = <<>>
    /\ rpc = "done"
    /\ reply = REPLResult(<<>>, <<>>, TRUE)

\* The code and Ctrl-D are written (repl.py:129-133); the device will send
\* its reply, or only a part of it.
RawInit ==
    /\ stdout \in Texts
    /\ stderr \in Texts
    /\ wire \in {SubSeq(Reply(stdout, stderr), 1, n) : n \in 0..Len(Reply(stdout, stderr))}
    /\ sent = <<>> /\ buf = <<>> /\ data = <<>>
    /\ rpc = "wait_ok"
    /\ reply = REPLResult(<<>>, <<>>, TRUE)

\* EventBus.__init__ and start (events.py:94-99, 160-167), no client yet
BusInit ==
    /\ queue = <<>>
    /\ emitted = <<>>
    /\ bpc = "get"
    /\ event = [type |-> "DEVICE_CONNECTED", source |-> "", data |-> 0]
    /\ hlog = [h \in Handlers |-> <<>>]
    /\ connections = {}
    /\ subscriptions = [c \in Clients |-> {}]
    /\ sendlist = {}
    /\ wslog = [c \in Clients |-> <<>>]
    /\ unsubscribed = [c \in Clients |-> {}]

\* LSPManager.__init__ (manager.py:30-37); no manager has a child
LspInit ==
    /\ process = [m \in Owners |-> 0]
    /\ children = {}
    /\ spawned = 0
    /\ ipc = [i \in InitTasks |-> "idle"]
    /\ initialized = [m \in Owners |-> FALSE]
    /\ lsp_read_task = "none"
    /\ request_id = 0
    /\ pending_requests = {}
    /\ resolved = {}
    /\ rid = [r \in Requesters |-> 0]
    /\ rstate = [r \in Requesters |-> "idle"]
    /\ got = [r \in Requesters |-> NoMessage]
    /\ issued = <<>>
    /\ unanswered = {}
    /\ srv_msgs = 0
    /\ sd = "idle"

\* no file operation is running; the device has no file
FtIdle ==
    /\ fpc = [t \in FileClients |-> "idle"]
    /\ content = [t \in FileClients |-> <<>>]
    /\ offset = [t \in FileClients |-> 0]
    /\ file_size = [t \in FileClients |-> 0]
    /\ rcontent = [t \in FileClients |-> <<>>]
    /\ dev_files = <<>>
    /\ dev_f = "none"
    /\ xlog = <<>>

\* no mkdir is running; the device has only its root
MkIdle ==
    /\ mk_path = <<>>
    /\ mk_call = 3
    /\ mk_parts = <<>>
    /\ current = <<>>
    /\ mk_out = <<>>
    /\ mk_log = <<>>
    /\ mk_tree = {}
    /\ dev_dirs = {}
    /\ dev_plain = {}

\* no sync is running
SyncIdle ==
    /\ local = <<>>
    /\ remote = <<>>
    /\ remote_files = <<>>
    /\ spc = "done"
    /\ sync_order = <<>>
    /\ todo = <<>>
    /\ remote_hash = <<>>
    /\ uploaded = <<>>
    /\ skipped = <<>>

\* the application after _async_setup (app.py:29-54)
AppInit ==
    /\ app_pc = "running"
    /\ stages = <<>>
    /\ sh_todo = {}
    /\ ws_subscribed = TRUE
    /\ monitoring = TRUE
    /\ registered = {}
    /\ dispatching = TRUE

WireStart ==
    /\ wpc = [t \in WireTasks |-> [at |-> "idle", ph |-> "run"]]
    /\ burst = [t \in WireTasks |-> <<>>]
    /\ tx = <<>>
    /\ w_lock = FreeLock
    /\ w_read_lock = FreeLock
WireInit == WireStart /\ w_in_raw_mode \in BOOLEAN /\ w_soft \in BOOLEAN
WireIdle == WireStart /\ w_in_raw_mode = FALSE /\ w_soft = TRUE
UnStart ==
    /\ un_pc = "idle"
    /\ un_tried = <<>>
    /\ un_deleted = <<>>
    /\ un_result = FALSE
UnIdle ==
    /\ UnStart
    /\ un_fs = [k \in {PathsToTry[j] : j \in 1..3} |-> "absent"]
    /\ un_ft = TRUE
UnInit ==
    /\ UnStart
    /\ un_fs \in [{PathsToTry[j] : j \in 1..3} -> Kinds3]
    /\ un_ft \in BOOLEAN

BoardIdle ==
    /\ h_pc = "idle"
    /\ h_n = 0
    /\ h_in_raw_mode = FALSE
    /\ h_entered = FALSE
    /\ h_data = <<>>
    /\ h_results = <<>>
    /\ b_rx = <<>>
    /\ b_mode = "friendly"
    /\ b_in = <<>>
    /\ b_run = <<>>
    /\ b_was_reset = FALSE

ResIdle == r_entry = "none" /\ r_env = <<>> /\ r_result = <<>>

DispIdle ==
    /\ d_handlers = <<>> /\ d_global = <<>> /\ d_raises = {} /\ d_queue = <<>>
    /\ d_phase = "get"
    /\ d_i = 1 /\ d_event = <<>> /\ d_calls = <<>> /\ d_done = <<>>

IoIdle == WireIdle /\ UnIdle /\ BoardIdle /\ ResIdle /\ DispIdle

Init == SessionInit /\ RawIdle /\ BusInit /\ LspInit /\ FtIdle /\ MkIdle /\ SyncIdle /\ AppInit /\ IoIdle

ExecNext(t) ==
    \/ ExecStart(t)
    \/ ExecMutexGranted(t)
    \/ ErmGranted(t)
    \/ ErmSend(t)
    \/ ErmRead(t)
    \/ ExGranted(t)
    \/ ExDrain(t)
    \/ ExEot(t)
    \/ ExWaitOk(t)
    \/ ExResp(t)
    \/ ExRespTimeout(t)
    \/ ExecCancel(t)

Next ==
    \/ ConnectStart
    \/ ConnectOpened
    \/ ConnectFinish
    \/ \E t \in Execs : ExecNext(t)
    \/ SoftStart
    \/ SoftGranted
    \/ SoftGo
    \/ SoftExited
    \/ SoftFinish
    \/ DisconnectStart
    \/ DisconnectClose("d")
    \/ DisconnectFinish("d")
    \/ ReaderRun
    \/ ReaderCancelled
    \/ DeviceSend
    \/ LinkError
    \/ ConnectionLost

Spec == Init /\ [][Next]_vars

\* ---- calls under a fair event loop
\* The session with two execute calls, a soft reset and a disconnect.
FairExecs == {"e1", "e2"}

NextCalls ==
    \/ ConnectStart
    \/ ConnectOpened
    \/ ConnectFinish
    \/ \E t \in FairExecs : ExecNext(t)
    \/ SoftStart
    \/ SoftGranted
    \/ SoftGo
    \/ SoftExited
    \/ SoftFinish
    \/ DisconnectStart
    \/ DisconnectClose("d")
    \/ DisconnectFinish("d")
    \/ ReaderRun
    \/ ReaderCancelled
    \/ DeviceSend
    \/ LinkError
    \/ ConnectionLost

\* A step of a started call: everything but the call being made or cancelled.
ExecStep(t) ==
    \/ ExecMutexGranted(t)
    \/ ErmGranted(t)
    \/ ErmSend(t)
    \/ ErmRead(t)
    \/ ExGranted(t)
    \/ ExDrain(t)
    \/ ExEot(t)
    \/ ExWaitOk(t)
    \/ ExResp(t)
    \/ ExRespTimeout(t)

\* The event loop runs every task that is ready (asyncio's ready queue is
\* FIFO), a wait_for or sleep that is over resumes its task, and a closed
\* transport reports connection_lost.  Nothing is assumed of the device.
SpecCallsFair ==
    /\ Init /\ [][NextCalls]_vars
    /\ \A t \in FairExecs : WF_vars(ExecStep(t))
    /\ WF_vars(ConnectOpened) /\ WF_vars(ConnectFinish)
    /\ WF_vars(SoftGranted) /\ WF_vars(SoftGo) /\ WF_vars(SoftExited) /\ WF_vars(SoftFinish)
    /\ WF_vars(DisconnectClose("d")) /\ WF_vars(DisconnectFinish("d"))
    /\ WF_vars(ReaderRun) /\ WF_vars(ReaderCancelled)
    /\ WF_vars(ConnectionLost)

\* ---- one reply, byte by byte
InitRaw == SessionInit /\ RawInit /\ BusInit /\ LspInit /\ FtIdle /\ MkIdle /\ SyncIdle /\ AppInit /\ IoIdle

NextRaw ==
    \/ RawDeviceEmit
    \/ RawWaitOk
    \/ RawWaitOkTimeout
    \/ RawRead
    \/ RawExecTimeout

SpecRaw == InitRaw /\ [][NextRaw]_vars

\* ---- the manager, the port watcher and one port
NextPorts ==
    \/ ConnectStart
    \/ ConnectOpened
    \/ ConnectFinish
    \/ DisconnectStart
    \/ \E t \in Closers : DisconnectClose(t)
    \/ \E t \in Closers : DisconnectFinish(t)
    \/ WatchRemoved
    \/ PortRemoved
    \/ ReaderRun
    \/ ReaderCancelled
    \/ DeviceSend
    \/ LinkError
    \/ ConnectionLost

SpecPorts == Init /\ [][NextPorts]_vars

\* ---- the event bus and the WebSocket broadcaster
NextBus ==
    \/ \E k \in Kinds, src \in Sources : Emit(k, src)
    \/ BusTake
    \/ BusKind
    \/ BusOnEvent
    \/ \E c \in Clients : WsSend(c)
    \/ BusSendDone
    \/ \E c \in Clients : WsConnect(c)
    \/ \E c \in Clients : WsDisconnect(c)
    \/ \E c \in Clients, port \in Ports : WsSubscribe(c, port)
    \/ \E c \in Clients, port \in Ports : WsUnsubscribe(c, port)

SpecBus == Init /\ [][NextBus]_vars

\* ---- the language-server proxy
NextLsp ==
    \/ \E i \in InitTasks : LspInitialize(i)
    \/ \E i \in InitTasks : LspSpawned(i)
    \/ \E r \in Requesters : SendRequest(r)
    \/ ServerResponds
    \/ ServerRepeats
    \/ ServerRequests
    \/ \E r \in Requesters : RequestReturns(r)
    \/ ShutdownStart
    \/ ShutdownReader
    \/ ShutdownFinish

SpecLsp == Init /\ [][NextLsp]_vars

\* ---- the language server's child: handshakes, exits, frames that do not parse
NextLspLife ==
    \/ \E i \in InitTasks : LspInitialize(i)
    \/ \E i \in InitTasks : LspSpawned(i)
    \/ \E i \in InitTasks : LspHandshake(i)
    \/ \E m \in Owners : ChildExits(m)
    \/ \E r \in Requesters : SendRequest(r)
    \/ ServerResponds
    \/ ServerSendsMalformed
    \/ \E r \in Requesters : RequestReturns(r)

SpecLspLife == Init /\ [][NextLspLife]_vars

\* ---- file transfer: one client writes a file and reads it back, or two do
\* at the same time
\* the byte strings written: every short one over ShortBytes, and patterned
\* ones of lengths around the multiples of CHUNK_SIZE
Fill(n, b) == [i \in 1..n |-> b]
\* a ramp whose period (251) is no divisor of CHUNK_SIZE: no two chunks alike
Ramp(n, step) == [i \in 1..n |-> (step * i) % 251]
LongLengths == {k * CHUNK_SIZE + d : k \in 1..MaxChunks, d \in {-1, 0, 1}}
Contents ==
    UNION {[1..n -> ShortBytes] : n \in 0..MaxShort}
        \cup {Fill(n, b) : n \in LongLengths, b \in {0, 255}}
        \cup {Ramp(n, step) : n \in LongLengths, step \in {1, 7}}
ConcurrentContents == {<<>>, <<7>>, <<1, 2>>}

InitFile ==
    /\ SessionInit /\ RawIdle /\ BusInit /\ LspInit /\ MkIdle /\ SyncIdle /\ AppInit /\ IoIdle
    /\ \/ /\ fpc = [t \in FileClients |-> IF t = "f1" THEN "w_open" ELSE "idle"]
          /\ \E c \in Contents : content = [t \in FileClients |-> IF t = "f1" THEN c ELSE <<>>]
       \/ /\ fpc = [t \in FileClients |-> IF t \in FileTasks THEN "w_open" ELSE "idle"]
          /\ \E c \in [FileTasks -> ConcurrentContents] :
                 content = [t \in FileClients |-> IF t \in FileTasks THEN c[t] ELSE <<>>]
    /\ offset = [t \in FileClients |-> 0]
    /\ file_size = [t \in FileClients |-> 0]
    /\ rcontent = [t \in FileClients |-> <<>>]
    /\ dev_files = <<>>
    /\ dev_f = "none"
    /\ xlog = <<>>

NextFile ==
    \/ \E t \in FileTasks : WriteOpen(t)
    \/ \E t \in FileTasks : WriteChunk(t)
    \/ \E t \in FileTasks : WriteClose(t)
    \/ \E t \in FileTasks : WriteAbort(t)
    \/ \E t \in FileTasks : ReadStat(t)
    \/ \E t \in FileTasks : ReadChunk(t)

SpecFile == InitFile /\ [][NextFile]_vars

\* ---- a file that is read while another client writes it
\* The device holds "/a.bin" from an earlier write_file; "f3" calls read_file
\* for it and "f1" write_file, then reads it back.
StoredContents == {Fill(n, 255) : n \in {1, CHUNK_SIZE, CHUNK_SIZE + 88}}

InitShared ==
    /\ SessionInit /\ RawIdle /\ BusInit /\ LspInit /\ MkIdle /\ SyncIdle /\ AppInit /\ IoIdle
    /\ fpc = [t \in FileClients |->
                 IF t = "f1" THEN "w_open" ELSE IF t = "f3" THEN "r_stat" ELSE "idle"]
    /\ \E c \in ConcurrentContents \cup StoredContents :
           content = [t \in FileClients |-> IF t = "f1" THEN c ELSE <<>>]
    /\ offset = [t \in FileClients |-> 0]
    /\ file_size = [t \in FileClients |-> 0]
    /\ rcontent = [t \in FileClients |-> <<>>]
    /\ \E c \in StoredContents : dev_files = [q \in {"/a.bin"} |-> c]
    /\ dev_f = "closed"
    /\ xlog = <<>>

NextShared ==
    \/ WriteOpen("f1")
    \/ WriteChunk("f1")
    \/ WriteClose("f1")
    \/ WriteAbort("f1")
    \/ \E t \in {"f1", "f3"} : ReadStat(t)
    \/ \E t \in {"f1", "f3"} : ReadChunk(t)

SpecShared == InitShared /\ [][NextShared]_vars

\* ---- mkdir, twice, of any path on a device with some tree
MkPaths ==
    {q \in UNION {[1..n -> PathChars] : n \in 0..MaxPath} :
        ~(Len(q) >= 2 /\ q[1] = "/" /\ q[2] = "/")}
P(a) == <<"/", a>>
P2(a, b) == <<"/", a, "/", b>>
Trees ==
    {[dirs |-> {}, plain |-> {}],
     [dirs |-> {P("x")}, plain |-> {}],
     [dirs |-> {P("x"), P2("x", "y")}, plain |-> {}],
     [dirs |-> {}, plain |-> {P("x")}],
     [dirs |-> {P("x")}, plain |-> {P2("x", "y")}]}

InitMkdir ==
    /\ SessionInit /\ RawIdle /\ BusInit /\ LspInit /\ FtIdle /\ SyncIdle /\ AppInit /\ IoIdle
    /\ mk_path \in MkPaths
    /\ mk_call = 1
    /\ mk_parts = Parts(mk_path)
    /\ current = <<>>
    /\ mk_out = <<>>
    /\ mk_log = <<>>
    /\ mk_tree = {}
    /\ \E tr \in Trees : dev_dirs = tr.dirs /\ dev_plain = tr.plain

NextMkdir ==
    \/ MkdirStep
    \/ MkdirNoName

SpecMkdir == InitMkdir /\ [][NextMkdir]_vars

\* ---- mkdir over a link on which an exchange may fail
NextMkdirLink ==
    \/ MkdirStep
    \/ MkdirNoName
    \/ MkdirFailed

SpecMkdirLink == InitMkdir /\ [][NextMkdirLink]_vars

\* ---- sync_folder of any local folder to any remote tree
Folders == UNION {[S -> SyncContents] : S \in SUBSET SyncNames}
Orders(S) == {o \in UNION {[1..n -> S] : n \in {Cardinality(S)}} :
                 \A i, j \in 1..Len(o) : i # j => o[i] # o[j]}

InitSync ==
    /\ SessionInit /\ RawIdle /\ BusInit /\ LspInit /\ FtIdle /\ MkIdle /\ AppInit /\ IoIdle
    /\ local \in Folders
    /\ remote \in Folders
    /\ remote_files = <<>>
    /\ spc = "start"
    /\ sync_order \in Orders(DOMAIN local)
    /\ todo = <<>>
    /\ remote_hash = [n \in DOMAIN local |-> None]
    /\ uploaded = <<>>
    /\ skipped = <<>>

NextSync ==
    \/ SyncGetRemote
    \/ SyncCompare
    \/ SyncBegin
    \/ SyncUpload

SpecSync == InitSync /\ [][NextSync]_vars

\* ---- the application, its clients and its shutdown
NextApp ==
    \/ ServerUp /\ \E c \in Clients : WsConnect(c)
    \/ \E c \in Clients : WsDisconnect(c)
    \/ ServerUp /\ \E i \in InitTasks : LspInitialize(i)
    \/ \E i \in InitTasks : LspSpawned(i)
    \/ \E p \in Ports : AppRegister(p)
    \/ AppShutdown
    \/ AppStopLsp
    \/ AppCloseWs
    \/ AppWsStopped
    \/ AppCleanup
    \/ AppStopMonitoring
    \/ AppDisconnect
    \/ AppSessionsClosed
    \/ AppStopEvents

SpecApp == Init /\ [][NextApp]_vars

\* ---- the events of a run that ends in shutdown
NextStop ==
    \/ ServerUp /\ \E c \in Clients : WsConnect(c)
    \/ \E p \in Ports : AppRegister(p)
    \/ BusTake
    \/ BusKind
    \/ BusOnEvent
    \/ \E c \in Clients : WsSend(c)
    \/ BusSendDone
    \/ AppShutdown
    \/ AppStopLsp
    \/ AppCloseWs
    \/ AppWsStopped
    \/ AppCleanup
    \/ AppStopMonitoring
    \/ AppDisconnect
    \/ AppSessionsClosed
    \/ AppStopEvents

SpecStop == Init /\ [][NextStop]_vars

\* The dispatcher task is run whenever it is ready: the wait_for on the queue
\* returns when an event is there, and a handler's send completes
\* (events.py:182-206).  Nothing is assumed of when the application is shut
\* down.
SpecStopFair ==
    /\ SpecStop
    /\ WF_vars(BusTake) /\ WF_vars(BusKind) /\ WF_vars(BusOnEvent) /\ WF_vars(BusSendDone)
    /\ \A c \in Clients : WF_vars(WsSend(c))

\* ---- the serial link: an execute, an interrupt, a repl:input line, a reset
InitWire ==
    /\ SessionInit /\ RawIdle /\ BusInit /\ LspInit /\ FtIdle /\ MkIdle /\ SyncIdle /\ AppInit
    /\ WireInit /\ UnIdle /\ BoardIdle /\ ResIdle /\ DispIdle

NextWire ==
    \/ WExecStart
    \/ WEnterInterrupt
    \/ WEnterRaw
    \/ WEnterPrompt
    \/ WExecSubmit
    \/ WExecReturn
    \/ WInterrupt
    \/ WReplInput
    \/ WReset
    \/ WResetGo
    \/ WResetExited
    \/ WResetReturn
    \/ \E t \in WireTasks : WriteGranted(t)
    \/ \E t \in WireTasks : Drained(t)
    \/ \E t \in WireTasks : WReadLockGranted(t)

SpecWire == InitWire /\ [][NextWire]_vars

\* A task woken with Device._lock runs, and the transport drains what it was
\* given (the port sends at its baud rate, no flow control is set up,
\* device.py:98-101).  Nothing is assumed of the device's answers.
SpecWireFair ==
    /\ SpecWire
    /\ \A t \in WireTasks : WF_vars(WriteGranted(t)) /\ WF_vars(Drained(t))

\* ---- uninstall_package on every file system at the three paths
InitUninstall ==
    /\ SessionInit /\ RawIdle /\ BusInit /\ LspInit /\ FtIdle /\ MkIdle /\ SyncIdle /\ AppInit
    /\ WireIdle /\ UnInit /\ BoardIdle /\ ResIdle /\ DispIdle

NextUninstall == UninstallPackage \/ UnDeleted

SpecUninstall == InitUninstall /\ [][NextUninstall]_vars

\* ---- one call of each entry point in every circumstance
InitResult ==
    /\ SessionInit /\ RawIdle /\ BusInit /\ LspInit /\ FtIdle /\ MkIdle /\ SyncIdle /\ AppInit
    /\ WireIdle /\ UnIdle /\ BoardIdle /\ DispIdle
    /\ r_entry \in {"manager", "execute", "friendly"}
    /\ r_env \in Envs
    /\ r_result = <<>>

NextResult ==
    \/ RNotConnected
    \/ REnterFailed
    \/ RNoOk
    \/ RTimeout
    \/ RAnswer
    \/ RCaught
    \/ RFriendly

SpecResult == InitResult /\ [][NextResult]_vars

\* ---- the dispatcher with every subscription list and handlers that raise
InitDispatch ==
    /\ SessionInit /\ RawIdle /\ BusInit /\ LspInit /\ FtIdle /\ MkIdle /\ SyncIdle /\ AppInit
    /\ WireIdle /\ UnIdle /\ BoardIdle /\ ResIdle
    /\ d_handlers \in [DTypes -> Registrations(KindHandlers)]
    /\ d_global \in Registrations(GlobalHandlers)
    /\ d_raises \in SUBSET (KindHandlers \cup GlobalHandlers)
    /\ d_queue = <<>> /\ d_phase = "get" /\ d_i = 1 /\ d_event = <<>>
    /\ d_calls = <<>> /\ d_done = <<>>

NextDispatch ==
    \/ \E t \in DTypes : DEmit(t)
    \/ DTake
    \/ DCall
    \/ DGlobal
    \/ DDone

SpecDispatch == InitDispatch /\ [][NextDispatch]_vars

\* ---- successive executes against a board
NextBoard ==
    \/ BoardTakes
    \/ BoardEmit
    \/ BoardHardReset
    \/ HExecute
    \/ HEnterRaw
    \/ HEnterPrompt
    \/ HSubmit
    \/ HWaitOk
    \/ HNoOk
    \/ HRead
    \/ HTimeout

SpecBoard == Init /\ [][NextBoard]_vars

\* ------------------------------------------------------------ claims, Spec
\* pcs at which pause_read_loop has returned and resume_read_loop is to come
HoldPcs == {"erm_send", "erm_read", "ex_drain", "ex_eot", "ex_wait_ok", "ex_resp",
            "s_go", "s_exit", "s_wait", "c_probe"}
\* pcs at which _read_lock is taken and pause_read_loop awaits the reader task
JoinPcs == {"erm_wait_reader", "ex_wait_reader", "s_wait_reader", "c_wait_reader"}
\* pcs of an execute that has the codec mutex
InMutexPcs == HoldPcs \cup JoinPcs \cup {"erm_wait_rl", "ex_wait_rl"}
FinalPcs == {"idle", "done", "cancelled"}

LockHolders == {t \in Tasks : pc[t] \in HoldPcs \cup JoinPcs}
Paused == {t \in Tasks : pc[t] \in HoldPcs}

\* C1: at most one task holds the exclusive read lock, and while a task holds
\* it after pause_read_loop has returned no reader task of the session is alive.
C1_ReadLockExclusive ==
    /\ Cardinality(LockHolders) <= 1
    /\ LockHolders # {} => read_lock.locked /\ rl_holder \in LockHolders
    /\ Paused # {} => ~ReaderAlive(read_task) /\ orphans = 0

\* C1 witness: soft_reset holds the lock, paused, while an execute that holds
\* the codec mutex waits for it.
C1_Witness ==
    /\ pc["s"] = "s_wait"
    /\ \E t \in Execs : pc[t] \in {"erm_wait_rl", "ex_wait_rl"}
    /\ read_task = "done"

Pos(seq, x) == CHOOSE i \in 1..Len(seq) : seq[i] = x
InSeq(seq, x) == \E i \in 1..Len(seq) : seq[i] = x

\* C2: executes on one port are queued, not interleaved: one execute at a time
\* is inside the mutex, and the mutex is granted in the order it was asked for.
C2_ExecutesQueued ==
    /\ Cardinality({t \in Execs : pc[t] \in InMutexPcs}) <= 1
    /\ \A t \in Execs : pc[t] \in InMutexPcs => mx_holder = t
    /\ \A i, j \in 1..Len(mx_grants) :
           i < j => Pos(mx_order, mx_grants[i]) < Pos(mx_order, mx_grants[j])
    /\ \A t \in Execs : pc[t] = "wait_mutex" =>
           \A i \in 1..Len(mx_grants) : Pos(mx_order, mx_grants[i]) < Pos(mx_order, t)

\* C2 witness: two executes queue behind a third that is talking to the device.
C2_Witness ==
    /\ pc["e1"] = "ex_resp"
    /\ repl_lock.waiters = <<"e2", "e3">>

\* C3: while an execute is in flight the reader appends nothing to the ring.
\* (Stated for the narrower interval in which the execute has the codec mutex.)
C3_NoRingAppendDuringExecute == ~ring_in_exec

\* C6: an execute that has returned, or was cancelled, holds neither the codec
\* mutex nor the read lock; once every task is through, both are free.
C6_NoLockLeft ==
    /\ \A t \in Execs : pc[t] \in {"done", "cancelled"} =>
           mx_holder # t /\ rl_holder # t /\ ~InSeq(repl_lock.waiters, t)
           /\ ~InSeq(read_lock.waiters, t)
    /\ (\A t \in Tasks : pc[t] \in FinalPcs) =>
           read_lock = FreeLock /\ repl_lock = FreeLock

\* C6 witness: one execute timed out, one was cancelled, and a later one got
\* both locks.
C6_Witness ==
    /\ pc["e1"] = "done" /\ result["e1"] = ExecTimeout
    /\ pc["e2"] = "cancelled"
    /\ pc["e3"] = "ex_wait_ok"

\* C7: outside the exclusive operations the reader task is running iff the
\* state is CONNECTED.
C7_ReaderIffConnected ==
    (\A t \in Tasks : pc[t] \in FinalPcs) =>
        (ReaderAlive(read_task) <=> state = "CONNECTED")

\* C8: when disconnect has returned the reader task has ended, the writer is
\* closed, the state is DISCONNECTED and DEVICE_DISCONNECTED was emitted.
C8_DisconnectStopsReader ==
    (pc["d"] = "done" /\ ~devices /\ n_connected = 1) =>
        /\ ~ReaderAlive(read_task)
        /\ ~writer
        /\ state = "DISCONNECTED"
        /\ n_disconnected = 1

\* C19: once the serial link of a registered session has failed and the
\* reader task has ended for it, the state is ERROR, a DEVICE_ERROR event has
\* been emitted for the port and the session is still registered.
C19_FatalError ==
    (n_connected = 1 /\ link = "error" /\ ~ReaderAlive(read_task)
         /\ \A t \in Tasks : pc[t] \in FinalPcs /\ pc["d"] = "idle" /\ pc["w"] = "idle")
        => (state = "ERROR" /\ n_error > 0 /\ devices)

\* C27: soft_reset and execute exclude each other: soft_reset has written
\* neither its 0x02 nor its 0x04 while an execute holds the codec mutex, and
\* an execute that has written its source still finds in_raw_mode set.
C27_ResetExcludesExecute ==
    /\ ~(mx_holder # "none" /\ pc["s"] \in {"s_exit", "s_wait"})
    /\ \A t \in Execs : pc[t] = "ex_eot" => in_raw_mode

\* the reader tasks of the Device that are alive
ReadersAlive == orphans + (IF ReaderAlive(read_task) THEN 1 ELSE 0)

\* C29: at most one reader task of the Device is alive, and no
\* resume_read_loop has created a reader while the previous one was alive.
C29_OneReader == ReadersAlive <= 1 /\ orphans = 0

\* C29 witness: connect, an execute and soft_reset have each paused and
\* resumed the reader, and the reader of the last resume is running.
C29_Witness ==
    /\ pc["c"] = "done" /\ pc["s"] = "done"
    /\ \E t \in Execs : pc[t] = "done" /\ result[t] = Answered("")
    /\ read_task = "run" /\ read_lock.locked = FALSE

\* the state changes of a session that C35 allows
Allowed(a, b) ==
    \/ a = b
    \/ b = "DISCONNECTED"
    \/ <<a, b>> \in {<<"DISCONNECTED", "CONNECTING">>, <<"CONNECTING", "CONNECTED">>,
                    <<"CONNECTING", "ERROR">>, <<"CONNECTED", "ERROR">>}

Complete == sent \o wire = Reply(stdout, stderr)
NoEndMarker == Find(sent \o wire, EndMarker) = 0
TimedOut == reply \in {RawNoOk, RawTimeout}

\* C4: when the device answers OK, stdout, 0x04, stderr, 0x04, '>' and no
\* timeout cuts the exchange short, execute returns output = stdout,
\* error = stderr and success = (stderr is empty), however the reply is split
\* across reads.
C4_RoundTrip ==
    (rpc = "done" /\ Complete /\ ~TimedOut) =>
        reply = REPLResult(stdout, stderr, stderr = <<>>)

C9_RemovalCleansUp ==
    (~port_present /\ ~known_ports /\ pc["w"] = "done"
        /\ pc["c"] \in {"idle", "done"} /\ pc["d"] \in {"idle", "done"}) =>
        /\ ~devices
        /\ n_connected > 0 => state = "DISCONNECTED"
        /\ n_disconnected = n_connected

\* ------------------------------------------------------------ claims, SpecBus
\* a log holds events in the order of their emission, none twice
InOrder(log) ==
    /\ \A i \in 1..Len(log) :
           log[i].data \in 1..Len(emitted) /\ emitted[log[i].data] = log[i]
    /\ \A i, j \in 1..Len(log) : i < j => log[i].data < log[j].data

\* C10: every bus handler is called with, and every WebSocket client is
\* written, events in the order of their emission; the global handler misses
\* none on the way.
C10_EventOrder ==
    /\ \A h \in Handlers : InOrder(hlog[h])
    /\ \A c \in Clients : InOrder(wslog[c])
    /\ \A i \in 1..Len(hlog["_on_event"]) : hlog["_on_event"][i] = emitted[i]
    /\ \A i \in 1..Len(queue) : queue[i] = emitted[Len(emitted) - Len(queue) + i]

\* C10 witness: two events were queued together; one client got both, the
\* other, subscribed to another port, got none of them.
C10_Witness ==
    /\ Len(wslog["ws1"]) = MaxEvents
    /\ wslog["ws2"] = <<>> /\ subscriptions["ws2"] = {"p2"}
    /\ "ws2" \in connections
    /\ Len(hlog["on_output"]) = 1

\* C11: a client _on_event visits while it is connected is sent the event
\* if and only if the event has no source, or the client has no subscription,
\* or the source is one of its subscriptions (a send either reaches the client
\* or fails and drops it); and a client's subscription set changes only by
\* the port of a subscribe or unsubscribe message, or is emptied when the
\* client comes or goes.
C11_SubscriptionFilter ==
    [][\A c \in Clients :
          LET wanted == \/ event.source = ""
                        \/ subscriptions[c] = {}
                        \/ event.source \in subscriptions[c]
              visited == bpc = "send" /\ c \in sendlist /\ c \notin sendlist'
              written == wslog'[c] = Append(wslog[c], event)
              dropped == c \notin connections'
          IN  /\ wslog'[c] # wslog[c] => visited /\ wanted /\ written
              /\ (visited /\ c \in connections) => (wanted <=> (written \/ dropped))
              /\ subscriptions'[c] # subscriptions[c] =>
                     \/ \E port \in Ports :
                            /\ port \notin subscriptions[c]
                            /\ subscriptions'[c] = subscriptions[c] \cup {port}
                     \/ \E port \in Ports :
                            /\ port \in subscriptions[c]
                            /\ subscriptions'[c] = subscriptions[c] \ {port}
                     \/ /\ subscriptions'[c] = {}
                        /\ (c \in connections) # (c \in connections')
    ]_vars

\* C11 witness: an event from p1 has been offered to both clients; the one
\* subscribed to p1 and p2 was written it, the one that had unsubscribed from
\* p1 and kept p2 was not.
C11_Witness ==
    /\ bpc = "send" /\ sendlist = {} /\ event.source = "p1"
    /\ subscriptions["ws1"] = {"p1", "p2"} /\ wslog["ws1"] = <<event>>
    /\ subscriptions["ws2"] = {"p2"} /\ wslog["ws2"] = <<>>
    /\ connections = Clients

\* ------------------------------------------------------------ claims, SpecLsp
\* C12: the ids send_request hands out are strictly increasing, and what
\* resolves a request's future is the response (result or error) that carries
\* the request's own id, whatever the interleaving of requests and the order
\* of the messages that arrive.
C12_Correlation ==
    /\ \A i, j \in 1..Len(issued) : i < j => issued[i] < issued[j]
    /\ \A r \in Requesters :
           got[r] # NoMessage =>
               got[r].id = rid[r] /\ got[r].kind \in {"result", "error"}

\* C13: at most one language-server child exists at any time.
C13_OneChild == Cardinality(children) <= 1

\* C14: when shutdown has cleared the pending requests, no caller is left
\* waiting for its response.
C14_ShutdownReleases ==
    sd = "done" => \A r \in Requesters : rstate[r] # "waiting"

\* C30: while a request waits and its response has not been handled, its id
\* is in pending_requests; once the request has returned (result, error or
\* timeout) the id is gone.
C30_PendingEntry ==
    \A r \in Requesters :
        /\ (rstate[r] = "waiting" /\ rid[r] \notin resolved) => rid[r] \in pending_requests
        /\ rstate[r] \in {"result", "error", "timeout"} => rid[r] \notin pending_requests

\* C31: a request of the server's own (id and method) resolves no pending
\* client request, even when its id is the id of a pending one.
C31_ServerRequestResolvesNothing ==
    \A r \in Requesters : got[r].kind # "request"

\* ------------------------------------------------------------ claims, SpecLspLife
\* C32: the response reader ends only at EOF of the child's stdout or at
\* shutdown: while the child runs and no shutdown has begun the reader is
\* running, whatever frames arrived, so later responses are still read.
C32_ReaderEndsOnEofOnly ==
    (IsRunning("ws") /\ sd = "idle") => lsp_read_task = "run"

\* C33: an lsp:initialize is answered as already initialized only while the
\* manager's child is running.
C33_NoAnswerWithoutChild ==
    [][\A i \in InitTasks :
          (ipc[i] # "already" /\ ipc'[i] = "already") => IsRunning(Owner(i))]_vars

\* ------------------------------------------------------------ claims, SpecFile
\* C15: when one client alone writes the bytes B to a file with write_file and
\* then reads the file with read_file, read_file returns exactly B, whatever
\* the bytes and whether or not the length is a multiple of the chunk size.
C15_RoundTrip ==
    \A t \in FileTasks :
        (\A u \in FileTasks \ {t} : fpc[u] = "idle") /\ fpc[t] \in {"done", "failed"}
            => fpc[t] = "done" /\ rcontent[t] = content[t]
C15_Witness ==
    /\ fpc["f1"] = "done" /\ fpc["f2"] = "idle"
    /\ Len(content["f1"]) > CHUNK_SIZE
    /\ Len(content["f1"]) % CHUNK_SIZE # 0
    /\ rcontent["f1"] = content["f1"]

\* C16: the exchanges of one file operation are never interleaved with those
\* of another: between two exchanges of an operation there is no exchange of
\* a different operation.
C16_NoInterleaving ==
    \A i, j, k \in 1..Len(xlog) : i < j /\ j < k /\ xlog[i] = xlog[k] => xlog[j] = xlog[i]

\* ------------------------------------------------------------ claims, SpecMkdir
\* the device paths mkdir(mk_path) visits: "/" and each name appended in turn
RECURSIVE Visited(_, _)
Visited(base, names) ==
    IF names = <<>> THEN {}
    ELSE LET cur == base \o <<"/">> \o Head(names)
         IN  {cur} \cup Visited(cur, Tail(names))
MkTargets == Visited(<<>>, NonEmpty(Split(mk_path, "/")))

\* C18: mkdir(p) returns success whether or not p exists when no plain file
\* is in its way, and then every directory of p exists; a second mkdir(p)
\* returns what the first returned and leaves the directory tree as the first
\* left it.
C18_MkdirIdempotent ==
    mk_call = 3 /\ Len(mk_out) = 2 =>
        /\ mk_out[2] = mk_out[1]
        /\ dev_dirs = mk_tree
        /\ (MkTargets \cap dev_plain = {} => mk_out[1] /\ MkTargets \subseteq dev_dirs)
\* both calls returned success: the first made a directory, the second found it
C18_Witness ==
    /\ mk_call = 3 /\ mk_out = <<TRUE, TRUE>>
    /\ \E i, j \in 1..Len(mk_log) : mk_log[i] = <<1, 0>> /\ mk_log[j] = <<2, EEXIST>>

\* ------------------------------------------------------------ claims, SpecSync
\* C17: when compare_files has returned, a local file is marked needs_upload
\* if and only if it is absent remotely or its remote content differs from
\* its local content.
C17_DiffSound ==
    spc = "compared" =>
        \A n \in DOMAIN local :
            NeedsUpload(n) <=> (n \notin DOMAIN remote \/ remote[n] # local[n])

\* ------------------------------------------------------------ claims, SpecApp
\* the place of a stage in the order the specification gives
StageRank(st) ==
    CASE st = "dispatcher" -> 1
      [] st = "websockets" -> 2
      [] st = "lsp" -> 3
      [] st = "sessions" -> 4
      [] st = "watcher" -> 5

\* C20: shutdown finishes its stages in the order event dispatcher,
\* WebSockets, language-server child, sessions, port watcher, and when it is
\* over no language-server child is left.
C20_ShutdownOrder ==
    /\ \A i, j \in 1..Len(stages) : i < j => StageRank(stages[i]) < StageRank(stages[j])
    /\ app_pc = "done" => children = {}

\* ------------------------------------------------------------ claims, SpecWire
\* the data of the writes task t has made, in order
RECURSIVE DataOf(_, _)
DataOf(s, t) ==
    IF s = <<>> THEN <<>>
    ELSE IF Head(s).by = t THEN <<Head(s).data>> \o DataOf(Tail(s), t)
    ELSE DataOf(Tail(s), t)
WrittenBy(t) == DataOf(tx, t)
\* the execute holds the codec mutex and the read lock and waits for the
\* device's answer to its submission
ExecuteWaits == wpc["x"] = [at |-> "submitted", ph |-> "run"]

\* C21: what interrupt writes is the single byte 0x03 and nothing else, and
\* an interrupt that was called returns, whatever the execute holds and
\* whether or not the device ever answers.
C21_InterruptCompletes ==
    /\ [](WrittenBy("i") = (IF Ready("i", "idle") \/ Waits("i") = "lock"
                             THEN <<>> ELSE << <<CTRL_C>> >>))
    /\ (Stage("i") = "sent") ~> Ready("i", "sent")

\* C21 witness: the interrupt was called after the execute had submitted, and
\* it has returned while the execute still waits for its answer.
C21_Witness ==
    /\ ExecuteWaits
    /\ Ready("i", "sent")
    /\ tx[Len(tx)] = [by |-> "i", data |-> <<CTRL_C>>]

\* C22: a reset request that has returned wrote what Device.reset gives for
\* its soft flag: 0x04 when soft, the machine.reset() line and no 0x04 when
\* not.
C22_ResetFlagDecides ==
    Ready("r", "done") =>
        /\ \E j \in 1..Len(tx) : tx[j] = [by |-> "r", data |-> DeviceReset(w_soft)]
        /\ ~w_soft => \A j \in 1..Len(tx) : tx[j] # [by |-> "r", data |-> <<CTRL_D>>]

\* C26: the write that follows the source of the execute on the link is the
\* execute's 0x04.
C26_SubmissionContiguous ==
    \A j \in 1..Len(tx) :
        tx[j] = [by |-> "x", data |-> Source] =>
            j = Len(tx) \/ tx[j + 1] = [by |-> "x", data |-> <<CTRL_D>>]

\* ------------------------------------------------------------ claims, SpecUninstall
\* C24: when uninstall has returned it reports success if and only if the
\* deletion succeeded at one of the paths, and it has gone through the paths
\* in order until then: a path is tried only after the ones before it, and
\* nothing is tried after a deletion.
C24_UninstallReports ==
    un_pc = "returned" =>
        /\ un_result <=> un_deleted # <<>>
        /\ \A k \in 1..Len(un_tried) : un_tried[k] = PathsToTry[k]
        /\ un_deleted # <<>> => un_deleted = <<un_tried[Len(un_tried)]>>
        /\ un_deleted = <<>> => Len(un_tried) = Len(PathsToTry)

\* ------------------------------------------------------------ claims, SpecBoard
\* text s has a byte of the output of a submission other than number k
HasForeign(s, k) ==
    \E i \in 1..Len(s), j \in 1..MaxOps : j # k /\ <<s[i]>> = Out(j)

\* C25: the output and the error of the result of execute number k hold no
\* output of another submission.
C25_OwnOutputOnly ==
    \A k \in 1..Len(h_results) :
        ~HasForeign(h_results[k].output, k) /\ ~HasForeign(h_results[k].error, k)

\* C28: an execute that follows one that failed for a missing OK or a
\* missing terminator has gone through the raw-mode enter sequence when it
\* submits.
C28_ReentersAfterFailure ==
    (h_pc = "wait_ok" /\ h_n >= 2 /\ h_results[h_n - 1] \in {RawNoOk, RawTimeout})
        => h_entered

\* ------------------------------------------------------------ claims, SpecResult
\* C23: every result returned by SerialManager.execute, RawREPL.execute or
\* RawREPL.execute_friendly has success true exactly when its error is the
\* empty string, whichever path returned it.
C23_SuccessIffNoError ==
    \A k \in 1..Len(r_result) : r_result[k].success <=> (r_result[k].error = <<>>)
\* a normal completion of execute whose answer carries output and an error
C23_Witness ==
    /\ r_entry = "execute" /\ r_env.ok /\ r_env.raises = <<>>
    /\ r_result = <<REPLResult(<<"a">>, <<"a">>, FALSE)>>

\* ------------------------------------------------------------ claims, SpecDispatch
\* the handlers called for event number n, in the order of the calls
CalledFor(n) ==
    LET cs == SelectSeq(d_calls, LAMBDA c : c.e = n)
    IN  [k \in 1..Len(cs) |-> cs[k].h]

\* C34: every event whose dispatch is over was delivered to all the handlers
\* of its type, in registration order, and then to all the global handlers,
\* whichever of them raised; and the events that follow are dispatched too.
C34_RaisingHandlerSkipsNone ==
    \A k \in 1..Len(d_done) :
        CalledFor(d_done[k].data) = d_handlers[d_done[k].type] \o d_global
\* the first handler of the first event raised, a handler of its type and a
\* global one were called after it, and the second event was dispatched
C34_Witness ==
    /\ Len(d_done) = 2
    /\ Len(d_handlers[d_done[1].type]) = 2 /\ d_global # <<>>
    /\ d_calls[1].raised /\ d_calls[1].e = 1
    /\ \E k \in 1..Len(d_calls) : d_calls[k].e = 2

\* ------------------------------------------------------------ claims, SpecBus (subscriptions)
\* C38: a client that has unsubscribed from port P and not subscribed to it
\* since is written no event whose source is P, also when P was its only
\* subscription.
C38_NoEventAfterUnsubscribe ==
    [][\A c \in Clients :
          wslog'[c] # wslog[c] => event.source \notin unsubscribed[c]]_vars

\* ------------------------------------------------------------ claims, SpecStopFair
\* the events one run can emit: APP_SHUTDOWN and, for each port,
\* DEVICE_CONNECTED and DEVICE_DISCONNECTED
MaxEmitted == 1 + 2 * Cardinality(Ports)
\* WebSocketHandler._on_event was subscribed when the event was emitted: it is
\* subscribed from the start to the unsubscribe in _async_shutdown, which
\* follows the emit of APP_SHUTDOWN; the sessions are disconnected after it.
WasSubscribed(e) == e.type # "DEVICE_DISCONNECTED"
Dispatched(e) == \E j \in 1..Len(hlog["_on_event"]) : hlog["_on_event"][j] = e

\* C40: with a dispatcher that runs whenever it can, every event emitted is
\* in the end dispatched to the handler that was subscribed when it was
\* emitted, the WebSocket broadcaster: APP_SHUTDOWN among them.
C40_NoEventDropped ==
    \A n \in 1..MaxEmitted :
        (Len(emitted) >= n /\ WasSubscribed(emitted[n]))
            ~> (Len(emitted) >= n /\ Dispatched(emitted[n]))

\* ------------------------------------------------------------ claims, SpecMkdirLink
\* C39: mkdir returns true only if the device reported every directory of the
\* path as created or as existing; a call with an exchange that failed returns
\* false.
C39_TrueOnlyIfAllReported ==
    \A k \in 1..Len(mk_out) :
        mk_out[k] => \A j \in 1..Len(mk_log) :
                         mk_log[j][1] = k => mk_log[j][2] \in {0, EEXIST}

\* ------------------------------------------------------------ claims, SpecShared
\* C37: every turn of read_file's chunk loop advances the offset or ends the
\* operation with an error, so read_file terminates, also when the file has
\* become shorter than the size read at the start.
C37_LoopAdvancesOrFails ==
    [][\A t \in FileClients :
          (fpc[t] = "r_chunk" /\ xlog' = Append(xlog, <<t, "read_file">>))
              => (offset'[t] > offset[t] \/ fpc'[t] = "failed")]_vars

\* ------------------------------------------------------------ claims, SpecCallsFair
\* C36: under a fair event loop every call that was made returns: an execute,
\* a soft reset, a connect or a disconnect that has started ends (done or
\* cancelled), whatever the device sends or fails to send.
C36_EveryCallReturns ==
    \A t \in FairExecs \cup {"c", "s", "d"} :
        (pc[t] # "idle") ~> (pc[t] \in {"done", "cancelled"})

\* Two executes, a soft reset and a disconnect were in flight together and
\* all have returned.
C36_Witness ==
    /\ \A t \in FairExecs \cup {"s", "d"} : pc[t] \in {"done", "cancelled"}
    /\ n_disconnected = 1

====
